---- MODULE Spec2Model ----
(***************************************************************************)
(* OptiRoute: the route sequencing engine of useRouteCalculation.ts        *)
(* (calculateMultiPointRoute, fetchOSRMTripRoute, the two heuristic        *)
(* orderers, haversine), the collaborators of routeUtils.ts and the        *)
(* caller state kept by RouteApp.tsx.                                      *)
(*                                                                         *)
(* Conventions of the translation                                          *)
(*  - JavaScript arrays are sequences; index k of the source is k+1 here.  *)
(*  - A value that may be null/undefined is a sequence of length 0 or 1    *)
(*    (<<>> is null), except a [lon, lat] pair, which is <<lon, lat>> and  *)
(*    <<>> when absent.                                                    *)
(*  - Distances are whole metres.  Durations are whole multiples of        *)
(*    1/DurUnit second, so that the division by the fallback speed and the *)
(*    factor 1.5 are exact.                                                *)
(*  - Code between two awaits runs to completion: one action is the code   *)
(*    from the return of one awaited request to the issue of the next.     *)
(***************************************************************************)
EXTENDS Integers, Sequences, FiniteSets, TLC

\* ------------------------------------------------------------------------
\* Bounds of the model
\* ------------------------------------------------------------------------
MaxStops == 3
\* the longest list of legs handed to an orderer
MaxLegs == 3

\* ------------------------------------------------------------------------
\* Values
\* ------------------------------------------------------------------------
StopIdText == <<"id1", "id2", "id3", "id4", "id5">>
AddressText == <<"1 First St", "2 Second St", "3 Third St", "4 Fourth St", "5 Fifth St">>
NameText == <<"Alpha", "Bravo", "Charlie", "Delta", "Echo">>

TransportModes == {"driving", "cycling", "walking"}

\* String.prototype.trim on the address and name texts of the model
Trim(s) == IF s = " " THEN "" ELSE s

\* A Waypoint as the caller keeps it (routeUtils.ts Waypoint); the
\* optional flags read as false when absent.  A stop is left out of a
\* route for one reason at a time (visited, or a blank address), and a stop
\* that is left out carries a name, so that any use of it would show.
WaypointsAt(k) ==
  {w \in [id : {StopIdText[k]},
          address : {" ", AddressText[k]},
          name : {"", NameText[k]},
          visited : BOOLEAN,
          isEndPoint : BOOLEAN,
          coordinates : {<<>>}] :
     /\ ~(w.visited /\ w.address = " ")
     /\ (w.visited \/ w.address = " ") => w.name # ""}

WaypointLists(n) ==
  {w \in [1..n -> UNION {WaypointsAt(k) : k \in 1..n}] :
     \A k \in 1..n : w[k] \in WaypointsAt(k)}

\* the waypoint lists the caller can hold after loadWaypoints
LoadableWaypoints == UNION {WaypointLists(n) : n \in 0..MaxStops}

\* JavaScript null where a waypoint object is expected
NullWaypoint ==
  [id |-> "null", address |-> "", name |-> "", visited |-> FALSE,
   isEndPoint |-> FALSE, coordinates |-> <<>>]

\* [lon, lat] pairs the geocoder can answer with, and the device position
GeocoderPoints == {<<0, 1>>, <<0, 2>>, <<1, 1>>}
DeviceLocation ==
  [latitude |-> 0, longitude |-> 0, address |-> "Device St"]

\* ------------------------------------------------------------------------
\* haversine (useRouteCalculation.ts 150-161), tabulated in metres for
\* whole-degree points: HaversineTable[lat1+1][lat2+1][|lon2-lon1|+1] is
\* R * 2 * atan2(sqrt(a), sqrt(1-a)) with R = 6371000, rounded.
\* ------------------------------------------------------------------------
HaversineTable ==
  << << <<0, 111195, 222390>>, <<111195, 157249, 248629>>, <<222390, 248629, 314475>> >>,
     << <<111195, 157249, 248629>>, <<0, 111178, 222356>>, <<111195, 157225, 248569>> >>,
     << <<222390, 248629, 314475>>, <<111195, 157225, 248569>>, <<0, 111127, 222254>> >> >>

Abs(x) == IF x < 0 THEN -x ELSE x

\* cos(lat1) * cos(lat1) in the place of cos(lat1) * cos(lat2)
haversine_OneCosine(a, b) ==
  LET table ==
        << << <<0, 111195, 222390>>, <<111195, 157255, 248644>>, <<222390, 248644, 314523>> >>,
           << <<111195, 157243, 248614>>, <<0, 111178, 222356>>, <<111195, 157243, 248614>> >>,
           << <<222390, 248614, 314427>>, <<111195, 157207, 248523>>, <<0, 111127, 222254>> >> >>
  IN table[a[2] + 1][b[2] + 1][Abs(b[1] - a[1]) + 1]

haversine_Signed(a, b) ==
  (IF b[1] < a[1] THEN -1 ELSE 1)
    * HaversineTable[a[2] + 1][b[2] + 1][Abs(b[1] - a[1]) + 1]

haversine(a, b) == HaversineTable[a[2] + 1][b[2] + 1][Abs(b[1] - a[1]) + 1]

\* ------------------------------------------------------------------------
\* Sequence helpers (Array.prototype.filter / findIndex / splice / map)
\* ------------------------------------------------------------------------
RECURSIVE SelectIdx(_, _, _)
\* the indices k >= from of s, in order, whose element satisfies keep[k]
SelectIdx(keep, from, n) ==
  IF from > n THEN <<>>
  ELSE IF keep[from] THEN <<from>> \o SelectIdx(keep, from + 1, n)
  ELSE SelectIdx(keep, from + 1, n)

FilterSeq(s, keep) ==
  LET idx == SelectIdx(keep, 1, Len(s))
  IN [k \in 1..Len(idx) |-> s[idx[k]]]

\* Array.prototype.findIndex: the first index whose flag holds, 0 for -1
FindIndex(flags) ==
  IF \E k \in DOMAIN flags : flags[k]
  THEN CHOOSE k \in DOMAIN flags : flags[k] /\ \A j \in 1..(k - 1) : ~flags[j]
  ELSE 0

RemoveAt(s, k) == SubSeq(s, 1, k - 1) \o SubSeq(s, k + 1, Len(s))

\* s.splice(pos, 0, x) with pos the 0-based index of the source, given
\* here as the 1-based index p = pos + 1 of the inserted element
InsertAt(s, p, x) == SubSeq(s, 1, p - 1) \o <<x>> \o SubSeq(s, p, Len(s))

\* ------------------------------------------------------------------------
\* calculateGreedyInsertionOrder (useRouteCalculation.ts 79-147)
\* A leg is [coords, waypoint]; the dummies carry NullWaypoint.
\* ------------------------------------------------------------------------
Leg(c, w) == [coords |-> c, waypoint |-> w]

RECURSIVE ScanInsertions_LastWins(_, _, _, _, _)
ScanInsertions_LastWins(toInsert, route, i, pos, best) ==
  IF i > Len(toInsert) THEN best
  ELSE IF pos > Len(route) - 1
  THEN ScanInsertions_LastWins(toInsert, route, i + 1, 1, best)
  ELSE LET prev == route[pos].coords
           next == route[pos + 1].coords
           stop == toInsert[i].coords
           increase == haversine(prev, stop) + haversine(stop, next)
                         - haversine(prev, next)
           better == best.bestIdx = 0 \/ increase <= best.bestIncrease
       IN ScanInsertions_LastWins(toInsert, route, i, pos + 1,
            IF better
            THEN [bestIncrease |-> increase, bestIdx |-> i, bestPos |-> pos]
            ELSE best)

\* lines 121-137: the double loop over (i, pos) with the strict "<" test;
\* best.bestIdx = 0 stands for bestIncrease = Infinity, bestIdx = -1
RECURSIVE ScanInsertions(_, _, _, _, _)
ScanInsertions(toInsert, route, i, pos, best) ==
  IF i > Len(toInsert) THEN best
  ELSE IF pos > Len(route) - 1
  THEN ScanInsertions(toInsert, route, i + 1, 1, best)
  ELSE LET prev == route[pos].coords
           next == route[pos + 1].coords
           stop == toInsert[i].coords
           increase == haversine(prev, stop) + haversine(stop, next)
                         - haversine(prev, next)
           better == best.bestIdx = 0 \/ increase < best.bestIncrease
       IN ScanInsertions(toInsert, route, i, pos + 1,
            IF better
            THEN [bestIncrease |-> increase, bestIdx |-> i, bestPos |-> pos]
            ELSE best)

\* lines 120-141: while (toInsert.length) insert the best candidate
RECURSIVE GreedyInsertAll(_, _)
GreedyInsertAll(toInsert, route) ==
  IF Len(toInsert) = 0 THEN route
  ELSE LET best == ScanInsertions(toInsert, route, 1, 1,
                     [bestIncrease |-> 0, bestIdx |-> 0, bestPos |-> 1])
       IN GreedyInsertAll(RemoveAt(toInsert, best.bestIdx),
                          InsertAt(route, best.bestPos + 1, toInsert[best.bestIdx]))

\* lines 92-117: the seed route; endCoords is <<>> for null
GreedySeed(start, waypoints, endCoords) ==
  LET endIdx == FindIndex([k \in 1..Len(waypoints) |->
                             endCoords # <<>> /\ waypoints[k].coords = endCoords])
      loop == <<Leg(start, NullWaypoint), Leg(start, NullWaypoint)>>
  IN IF endCoords # <<>> /\ endIdx # 0
     THEN [toInsert |-> RemoveAt(waypoints, endIdx),
           route |-> <<Leg(start, NullWaypoint),
                       Leg(waypoints[endIdx].coords, waypoints[endIdx])>>]
     ELSE [toInsert |-> waypoints, route |-> loop]

\* lines 143-146: drop the dummy start and a dummy end
StripDummies(route) ==
  LET r1 == IF route[1].waypoint = NullWaypoint THEN Tail(route) ELSE route
  IN IF Len(r1) > 0 /\ r1[Len(r1)].waypoint = NullWaypoint
     THEN SubSeq(r1, 1, Len(r1) - 1)
     ELSE r1

calculateGreedyInsertionOrder(start, waypoints, endCoords) ==
  IF Len(waypoints) = 0 THEN <<>>
  ELSE LET seed == GreedySeed(start, waypoints, endCoords)
       IN StripDummies(GreedyInsertAll(seed.toInsert, seed.route))

\* ------------------------------------------------------------------------
\* calculateNearestNeighborOrder (useRouteCalculation.ts 164-199)
\* ------------------------------------------------------------------------
RECURSIVE NearestScan_LastWins(_, _, _, _)
NearestScan_LastWins(current, remaining, i, min) ==
  IF i > Len(remaining) THEN min
  ELSE LET dist == haversine(current, remaining[i].coords)
       IN NearestScan_LastWins(current, remaining, i + 1,
            IF dist <= min.minDist THEN [minIdx |-> i, minDist |-> dist] ELSE min)

\* lines 185-192: the scan from the second remaining leg on, with the
\* strict "<" test
RECURSIVE NearestScan(_, _, _, _)
NearestScan(current, remaining, i, min) ==
  IF i > Len(remaining) THEN min
  ELSE LET dist == haversine(current, remaining[i].coords)
       IN NearestScan(current, remaining, i + 1,
            IF dist < min.minDist THEN [minIdx |-> i, minDist |-> dist] ELSE min)

\* lines 182-197: while (remaining.length > 0) push the nearest leg
RECURSIVE NearestAll(_, _, _)
NearestAll(current, remaining, ordered) ==
  IF Len(remaining) = 0 THEN ordered
  ELSE LET min == NearestScan(current, remaining, 2,
                    [minIdx |-> 1, minDist |-> haversine(current, remaining[1].coords)])
       IN NearestAll(remaining[min.minIdx].coords,
                     RemoveAt(remaining, min.minIdx),
                     Append(ordered, remaining[min.minIdx]))

calculateNearestNeighborOrder(start, waypoints, endCoords) ==
  LET idx == FindIndex([k \in 1..Len(waypoints) |->
                          endCoords # <<>> /\ waypoints[k].coords = endCoords])
      remaining == IF idx # 0 THEN RemoveAt(waypoints, idx) ELSE waypoints
      ordered == NearestAll(start, remaining, <<>>)
  IN IF idx # 0 THEN Append(ordered, waypoints[idx]) ELSE ordered


\* ------------------------------------------------------------------------
\* Collaborator responses
\* ------------------------------------------------------------------------
\* geocodeAddress (routeUtils.ts 45-58): [lon, lat], or null (<<>>) when the
\* search is empty or the request throws
GeocoderAnswers == GeocoderPoints \cup {<<>>}

\* OSRM answers in [lon, lat]; the engine keeps paths in [lat, lon]
Swap_Unswapped(p) == p

Swap(p) == <<p[2], p[1]>>
SwapAll(path) == [k \in 1..Len(path) |-> Swap(path[k])]

\* distance (m) and duration (s) figures the services answer with
TripMetrics == [distance |-> 5000, duration |-> 600]
SegmentMetrics == [distance |-> 1500, duration |-> 120]

OrderPermutations(n) ==
  {f \in [1..n -> 0..(n - 1)] : \A a, b \in 1..n : a # b => f[a] # f[b]}

\* waypoint_order arrays the trip service may send for n destinations: the
\* permutations of 0..n-1, and arrays that are too short, too long, out of
\* range or repeat an index
OrderArrays(n) ==
  LET identity == [k \in 1..n |-> k - 1]
  IN OrderPermutations(n)
       \cup {identity \o <<n>>}
       \cup (IF n >= 1 THEN {SubSeq(identity, 1, n - 1),
                             [identity EXCEPT ![1] = n]} ELSE {})
       \cup (IF n >= 2 THEN {[identity EXCEPT ![n] = 0]} ELSE {})

\* The answer to one trip request for the points pts ([lon, lat], start
\* first): kind "transport" is a rejected fetch or unparsable body,
\* "no_trip" a body without trips[0], "no_geometry" a trip whose geometry
\* is absent or malformed, "trip" a trip; waypoint_order is <<>> when the
\* field is missing and <<array>> otherwise.
TripResponse(kind, pts, order) ==
  [kind |-> kind, coordinates |-> pts, distance |-> TripMetrics.distance,
   duration |-> TripMetrics.duration, waypoint_order |-> order]

TripResponses(pts, n) ==
  {TripResponse(k, pts, <<>>) : k \in {"transport", "no_trip", "no_geometry", "trip"}}
    \cup {TripResponse("trip", pts, <<o>>) : o \in OrderArrays(n)}

SnappedPoint == <<2, 2>>

\* The answer to one segment request from a to b ([lon, lat]): "transport"
\* and "no_route" make fetchOSRMRoute throw; a route carries a path to b
\* that starts at a, or at a point snapped away from a.
SegmentResponses(a, b) ==
  {[kind |-> k, coordinates |-> <<a, b>>, distance |-> SegmentMetrics.distance,
    duration |-> SegmentMetrics.duration] : k \in {"transport", "no_route"}}
    \cup {[kind |-> "route", coordinates |-> g, distance |-> SegmentMetrics.distance,
           duration |-> SegmentMetrics.duration] :
             g \in {<<a, b>>, <<SnappedPoint, b>>}}

\* ------------------------------------------------------------------------
\* fetchOSRMTripRoute (useRouteCalculation.ts 5-76), the part after the
\* fetch: threw is TRUE where the function throws
\* ------------------------------------------------------------------------
TripPoints(start, destinations, endCoords) ==
  <<start>> \o [k \in 1..Len(destinations) |-> destinations[k].coords]
            \o (IF endCoords # <<>> THEN <<endCoords>> ELSE <<>>)

\* lines 43-56: the order used to rebuild the destinations (0-based)
TripOrder(destinations, waypoint_order) ==
  IF waypoint_order # <<>> /\ Len(waypoint_order[1]) = Len(destinations)
  THEN waypoint_order[1]
  ELSE [k \in 1..Len(destinations) |-> k - 1]

fetchOSRMTripRoute(destinations, resp) ==
  LET failed == [threw |-> TRUE, geometry |-> <<>>, distance |-> 0,
                 duration |-> 0, waypoint_order |-> <<>>, reordered |-> <<>>]
      order == TripOrder(destinations, resp.waypoint_order)
      inRange == \A k \in 1..Len(order) : order[k] + 1 \in 1..Len(destinations)
  IN IF resp.kind \in {"transport", "no_trip", "no_geometry"} THEN failed
     ELSE IF Len(destinations) > 0 /\ ~inRange THEN failed
     ELSE [threw |-> FALSE,
           geometry |-> SwapAll(resp.coordinates),
           distance |-> resp.distance,
           duration |-> resp.duration,
           waypoint_order |-> resp.waypoint_order,
           reordered |-> IF Len(destinations) > 0
                         THEN [k \in 1..Len(order) |->
                                 Leg(destinations[order[k] + 1].coords,
                                     destinations[order[k] + 1].waypoint)]
                         ELSE <<>>]

\* fetchOSRMRoute (routeUtils.ts 61-97), the part after the fetch
fetchOSRMRoute(resp) ==
  IF resp.kind \in {"transport", "no_route"}
  THEN [threw |-> TRUE, geometry |-> <<>>, distance |-> 0, duration |-> 0]
  ELSE [threw |-> FALSE, geometry |-> SwapAll(resp.coordinates),
        distance |-> resp.distance, duration |-> resp.duration]


\* ------------------------------------------------------------------------
\* State
\* ------------------------------------------------------------------------
VARIABLES
  waypoints,        \* RouteApp: useState<Waypoint[]>
  transportMode,    \* RouteApp: useState transportMode
  currentLocation,  \* useCurrentLocation: <<>> or <<LocationData>>
  leaflet,          \* useLeafletMap: TRUE once the map and leaflet are loaded
  routeData,        \* RouteApp: useState<RouteData | null>: <<>> or <<RouteData>>
  isLoading,        \* RouteApp: useState isLoading
  lastDurations,    \* window.__lastRouteDurationsByMode
  toasts,           \* the toasts shown so far
  routeLayerRef,    \* the polyline on the map: <<>> or <<path>>
  markersRef,       \* the markers on the map
  call,             \* the invocations of calculateMultiPointRoute
  ordering          \* one run of the heuristic orderers on one input

vars == <<waypoints, transportMode, currentLocation, leaflet, routeData,
          isLoading, lastDurations, toasts, routeLayerRef, markersRef, call,
          ordering>>

\* the state of the caller and of the invocations
appVars == <<waypoints, transportMode, currentLocation, leaflet, routeData,
             isLoading, lastDurations, toasts, routeLayerRef, markersRef, call>>

\* the invocations of the sequential specification
MainCalls == {1}

SpeedMps == 13
DurUnit == 2 * SpeedMps

Undefined == "undefined"
\* a property read that may be undefined
Prop(w, f) == IF f \in DOMAIN w THEN w[f] ELSE Undefined

Toast(title, description, subject) ==
  [title |-> title, description |-> description, subject |-> subject]

Request(kind, profile, subject, points) ==
  [kind |-> kind, profile |-> profile, subject |-> subject, points |-> points]

IdleCall ==
  [pc |-> "idle",
   transportMode |-> "driving",
   currentLocation |-> <<>>,
   waypoints |-> <<>>,
   availableWaypoints |-> <<>>,
   endWaypoint |-> <<>>,
   intermediateWaypoints |-> <<>>,
   geocodedIntermediate |-> <<>>,
   geocodedEnd |-> <<>>,
   tripResp |-> "unset",
   useGreedyInsertion |-> FALSE,
   reordered |-> <<>>,
   i |-> 0,
   prev |-> <<>>,
   allCoords |-> <<>>,
   totalDist |-> 0,
   totalDur |-> 0,
   requests |-> <<>>,
   segments |-> <<>>,
   result |-> "none",
   delivered |-> <<>>]

\* (delivered is what the invocation handed to its caller when it ended:
\* the route of line 573 or the error toast of line 612)

\* the orderers before they are called: inputs, the working copies of
\* calculateGreedyInsertionOrder (toInsert, route, the best pair of the last
\* scan) and the two return values (<<>> until returned)
IdleOrdering ==
  [pc |-> "input", start |-> <<0, 0>>, waypoints |-> <<>>, endCoords |-> <<>>,
   toInsert |-> <<>>, route |-> <<>>,
   best |-> [bestIncrease |-> 0, bestIdx |-> 0, bestPos |-> 1],
   greedy |-> <<>>, nearest |-> <<>>]

UserMarker == [lovableType |-> "currentLocation", displayNumber |-> 0,
               latitude |-> DeviceLocation.latitude,
               longitude |-> DeviceLocation.longitude]

\* RouteApp.tsx 20-60 and the hooks' useState/useRef initial values; the
\* location and the map may or may not have arrived when the user acts
Init ==
  /\ waypoints \in LoadableWaypoints
  /\ transportMode = "driving"
  /\ currentLocation \in {<<>>, <<DeviceLocation>>}
  /\ leaflet \in BOOLEAN
  /\ routeData = <<>>
  /\ isLoading = FALSE
  /\ lastDurations = [m \in TransportModes |-> <<>>]
  /\ toasts = <<>>
  /\ routeLayerRef = <<>>
  /\ markersRef = IF leaflet /\ currentLocation # <<>> THEN <<UserMarker>> ELSE <<>>
  /\ call = [c \in MainCalls |-> IdleCall]
  /\ ordering = IdleOrdering


\* ------------------------------------------------------------------------
\* calculateMultiPointRoute (useRouteCalculation.ts 223-623)
\* ------------------------------------------------------------------------
IsAvailable_KeepsVisited(wp) == Trim(wp.address) # ""

IsAvailable_Untrimmed(wp) == ~wp.visited /\ wp.address # ""

\* lines 238-240
IsAvailable(wp) == ~wp.visited /\ Trim(wp.address) # ""

\* the profile put in the request URL
TripProfile(mode) == mode
RouteProfile(mode) ==
  IF mode \in {"walking", "cycling", "driving"} THEN mode ELSE "driving"

ProviderMode_AsRequested(mode) == mode

\* lines 316 and 364: the mode handed to both routing clients is the
\* literal "driving", whatever transportMode the invocation runs with
ProviderMode(mode) == "driving"

GeocodeRequest(wp) == Request("geocode", "", wp.id, <<>>)

StartCoords(c) == <<c.currentLocation[1].longitude, c.currentLocation[1].latitude>>

\* line 291
EndCoords(c) == IF c.geocodedEnd # <<>> THEN c.geocodedEnd[1].coordinates ELSE <<>>

\* lines 300-303
Intermediate(c) ==
  [k \in 1..Len(c.geocodedIntermediate) |->
     Leg(c.geocodedIntermediate[k].coordinates, c.geocodedIntermediate[k])]

Fail_NoFinally(c, description, subject) ==
  /\ toasts' = Append(toasts, Toast("Route calculation failed", description, subject))
  /\ call' = [call EXCEPT ![c] =
       [@ EXCEPT !.pc = "done", !.result = "error",
                 !.delivered = <<Toast("Route calculation failed", description, subject)>>]]
  /\ UNCHANGED <<routeData, isLoading, lastDurations, routeLayerRef, markersRef>>

\* lines 610-622: the catch and the finally of the try block
Fail(c, description, subject) ==
  /\ toasts' = Append(toasts, Toast("Route calculation failed", description, subject))
  /\ isLoading' = FALSE
  /\ call' = [call EXCEPT ![c] =
       [@ EXCEPT !.pc = "done", !.result = "error",
                 !.delivered = <<Toast("Route calculation failed", description, subject)>>]]
  /\ UNCHANGED <<routeData, lastDurations, routeLayerRef, markersRef>>

ShownDuration_CyclingUncompensated(mode, totalDur) ==
  IF mode = "walking" THEN totalDur * 3 ELSE totalDur

ShownDuration_AtLeastLast(mode, totalDur) ==
  LET shown == IF mode = "walking" THEN totalDur * 3
               ELSE IF mode = "cycling" THEN (totalDur * 3) \div 2
               ELSE totalDur
  IN IF lastDurations[mode] # <<>> /\ lastDurations[mode][1] > shown
     THEN lastDurations[mode][1] ELSE shown

\* lines 426-434
ShownDuration(mode, totalDur) ==
  IF mode = "walking" THEN totalDur * 3
  ELSE IF mode = "cycling" THEN (totalDur * 3) \div 2
  ELSE totalDur

DisplayNumber_OffByOne(idx) == idx + 1

\* line 476: displayNumber: idx + 1 for the 0-based idx of the source, which
\* is the 1-based idx here
DisplayNumber(idx) == idx

\* lines 453-478: the waypoint built for reordered[idx]
StopWaypoint(reordered, idx, endWaypoint) ==
  LET reorderedWp == reordered[idx]
      esUltimo == idx = Len(reordered) /\ endWaypoint # <<>>
  IN [latitude |-> reorderedWp.coords[2],
      longitude |-> reorderedWp.coords[1],
      address |-> IF esUltimo
                  THEN (IF Trim(endWaypoint[1].address) # ""
                        THEN endWaypoint[1].address
                        ELSE Prop(reorderedWp.waypoint, "address"))
                  ELSE Prop(reorderedWp.waypoint, "address"),
      name |-> IF esUltimo
               THEN (IF Trim(endWaypoint[1].name) # ""
                     THEN endWaypoint[1].name
                     ELSE Prop(reorderedWp.waypoint, "name"))
               ELSE Prop(reorderedWp.waypoint, "name"),
      id |-> IF esUltimo
             THEN (IF endWaypoint[1].id # "" THEN endWaypoint[1].id
                   ELSE Prop(reorderedWp.waypoint, "id"))
             ELSE Prop(reorderedWp.waypoint, "id"),
      displayNumber |-> DisplayNumber(idx)]

\* lines 444-479
GreedyWaypoints(location, reordered, endWaypoint) ==
  <<[latitude |-> location.latitude,
     longitude |-> location.longitude,
     address |-> IF location.address # "" THEN location.address ELSE "Your Location",
     name |-> "Your Location",
     id |-> "start",
     displayNumber |-> 0]>>
  \o [k \in 1..Len(reordered) |-> StopWaypoint(reordered, k, endWaypoint)]

\* lines 506-564: one marker per waypoint
RouteMarkers(greedyWaypoints) ==
  [k \in 1..Len(greedyWaypoints) |->
     [lovableType |-> "stop",
      displayNumber |-> greedyWaypoints[k].displayNumber,
      latitude |-> greedyWaypoints[k].latitude,
      longitude |-> greedyWaypoints[k].longitude]]

SummaryTitle_AlwaysCalculated(useGreedyInsertion) == "Route calculated!"

\* lines 581-586
SummaryTitle(useGreedyInsertion) ==
  IF useGreedyInsertion THEN "Route: optimized by smart insertion"
  ELSE "Route calculated!"

\* lines 426-609 and the finally: c has left its last await with the order,
\* the path and the totals in hand
Finish(c, rec, reordered, geometryLatLngs, totalDist, totalDur, pending) ==
  LET shownDuration == ShownDuration(rec.transportMode, totalDur)
      greedyWaypoints ==
        GreedyWaypoints(rec.currentLocation[1], reordered, rec.endWaypoint)
      summary ==
        Toast(SummaryTitle(rec.useGreedyInsertion),
              IF Len(greedyWaypoints) > 1 THEN "Stop sequence"
              ELSE IF rec.endWaypoint # <<>> THEN "Optimal route with endpoint"
              ELSE "Optimal route with stops", "")
      routeArtifact ==
        [distance |-> totalDist,
         duration |-> shownDuration,
         coordinates |-> geometryLatLngs,
         waypoints |-> greedyWaypoints]
  IN /\ lastDurations' = [lastDurations EXCEPT ![rec.transportMode] = <<shownDuration>>]
     /\ routeLayerRef' = <<geometryLatLngs>>
     /\ markersRef' = RouteMarkers(greedyWaypoints)
     /\ routeData' = <<routeArtifact>>
     /\ toasts' = toasts \o pending \o <<summary>>
     /\ isLoading' = FALSE
     /\ call' = [call EXCEPT ![c] =
                   [rec EXCEPT !.pc = "done", !.result = "route",
                               !.reordered = reordered,
                               !.totalDist = totalDist,
                               !.totalDur = totalDur,
                               !.delivered = <<routeArtifact>>]]

\* lines 228-292 up to the first await: the guard on the location and the
\* map, the filter, the end point, setIsLoading(true), setRouteData(null)
\* and the first geocoder request; mode is the transportMode of the render
\* whose closure runs
Invoke(c, mode) ==
  /\ call[c].pc = "idle"
  /\ UNCHANGED <<waypoints, currentLocation, leaflet>>
  /\ LET availableWaypoints ==
           FilterSeq(waypoints, [k \in 1..Len(waypoints) |-> IsAvailable(waypoints[k])])
         endWaypointIndex ==
           FindIndex([k \in 1..Len(availableWaypoints) |-> availableWaypoints[k].isEndPoint])
         endWaypoint ==
           IF endWaypointIndex # 0 THEN <<availableWaypoints[endWaypointIndex]>> ELSE <<>>
         intermediateWaypoints ==
           IF endWaypointIndex # 0
           THEN FilterSeq(availableWaypoints,
                          [k \in 1..Len(availableWaypoints) |-> k # endWaypointIndex])
           ELSE availableWaypoints
         first == IF Len(intermediateWaypoints) > 0
                  THEN intermediateWaypoints[1] ELSE endWaypoint[1]
         rec == [call[c] EXCEPT
                   !.transportMode = mode,
                   !.currentLocation = currentLocation,
                   !.waypoints = waypoints]
     IN IF currentLocation = <<>> \/ ~leaflet
        THEN /\ toasts' = Append(toasts, Toast("Missing information",
                  "Please set your location first and wait for the map to load.", ""))
             /\ call' = [call EXCEPT ![c] = [rec EXCEPT !.pc = "done", !.result = "rejected"]]
             /\ UNCHANGED <<routeData, isLoading, lastDurations, routeLayerRef, markersRef>>
        ELSE IF Len(availableWaypoints) = 0
        THEN /\ toasts' = Append(toasts, Toast("No destinations",
                  "Please add at least one unvisited destination.", ""))
             /\ call' = [call EXCEPT ![c] = [rec EXCEPT !.pc = "done", !.result = "rejected"]]
             /\ UNCHANGED <<routeData, isLoading, lastDurations, routeLayerRef, markersRef>>
        ELSE /\ toasts' = IF Len(availableWaypoints) = 1
                          THEN Append(toasts, Toast("Only one destination",
                                 "Optimal route not needed for a single stop.", ""))
                          ELSE toasts
             /\ isLoading' = TRUE
             /\ routeData' = <<>>
             /\ call' = [call EXCEPT ![c] =
                  [rec EXCEPT !.pc = "geocode",
                              !.availableWaypoints = availableWaypoints,
                              !.endWaypoint = endWaypoint,
                              !.intermediateWaypoints = intermediateWaypoints,
                              !.requests = <<GeocodeRequest(first)>>]]
             /\ UNCHANGED <<lastDurations, routeLayerRef, markersRef>>

\* ControlsPanel "Calculate Optimal Route" (disabled while isLoading),
\* RouteApp.tsx 178-180
CalculateRoute(c) ==
  /\ ~isLoading
  /\ Invoke(c, transportMode)
  /\ UNCHANGED <<transportMode, ordering>>

\* a transport mode button, and the effect of RouteApp.tsx 154-163 that
\* recalculates when transportMode has changed
SetTransportMode(c, m) ==
  /\ m # transportMode
  /\ call[c].pc = "idle"
  /\ transportMode' = m
  /\ UNCHANGED ordering
  /\ IF /\ currentLocation # <<>>
        /\ \E k \in 1..Len(waypoints) : IsAvailable(waypoints[k])
     THEN Invoke(c, m)
     ELSE UNCHANGED <<waypoints, currentLocation, leaflet, routeData, isLoading,
                      lastDurations, toasts, routeLayerRef, markersRef, call>>

SegmentRequest_Reversed(segStart, segEnd) ==
  Request("route", RouteProfile("driving"), "", <<segEnd, segStart>>)

\* the segment request of the fallback loop for leg k, lines 356-367
SegmentRequest(segStart, segEnd) ==
  Request("route", RouteProfile("driving"), "", <<segStart, segEnd>>)

Geocoded_KeepsSupplied(waypoint, coordinates) ==
  IF waypoint.coordinates # <<>> THEN waypoint
  ELSE [waypoint EXCEPT !.coordinates = coordinates]

\* lines 281 and 290: { ...waypoint, coordinates }
Geocoded(waypoint, coordinates) == [waypoint EXCEPT !.coordinates = coordinates]

NotFound_Never(coordinates) == FALSE

\* lines 278 and 287: if (!coordinates)
NotFound(coordinates) == coordinates = <<>>

\* lines 276-308: the geocoder has answered the outstanding request with
\* coordinates; the next stop is asked for, or the trip request is issued
GeocodeReturn(c, coordinates) ==
  /\ call[c].pc = "geocode"
  /\ UNCHANGED <<waypoints, transportMode, currentLocation, leaflet, ordering>>
  /\ LET rec == call[c]
         inLoop == Len(rec.geocodedIntermediate) < Len(rec.intermediateWaypoints)
         waypoint == IF inLoop
                     THEN rec.intermediateWaypoints[Len(rec.geocodedIntermediate) + 1]
                     ELSE rec.endWaypoint[1]
         geocoded == Geocoded(waypoint, coordinates)
         geocodedIntermediate ==
           IF inLoop THEN Append(rec.geocodedIntermediate, geocoded)
           ELSE rec.geocodedIntermediate
         geocodedEnd == IF inLoop THEN rec.geocodedEnd ELSE <<geocoded>>
         rec2 == [rec EXCEPT !.geocodedIntermediate = geocodedIntermediate,
                             !.geocodedEnd = geocodedEnd]
     IN IF NotFound(coordinates)
        THEN Fail(c, IF inLoop THEN "Destination not found"
                     ELSE "End destination not found", waypoint.address)
        ELSE IF Len(geocodedIntermediate) < Len(rec.intermediateWaypoints)
        THEN /\ call' = [call EXCEPT ![c] = [rec2 EXCEPT !.requests =
                  Append(@, GeocodeRequest(
                    rec.intermediateWaypoints[Len(geocodedIntermediate) + 1]))]]
             /\ UNCHANGED <<routeData, isLoading, lastDurations, toasts,
                            routeLayerRef, markersRef>>
        ELSE IF inLoop /\ rec.endWaypoint # <<>>
        THEN /\ call' = [call EXCEPT ![c] = [rec2 EXCEPT !.requests =
                  Append(@, GeocodeRequest(rec.endWaypoint[1]))]]
             /\ UNCHANGED <<routeData, isLoading, lastDurations, toasts,
                            routeLayerRef, markersRef>>
        ELSE IF Len(geocodedIntermediate) = 0 /\ geocodedEnd = <<>>
        THEN Fail(c, "No valid destinations to route to.", "")
        ELSE /\ call' = [call EXCEPT ![c] = [rec2 EXCEPT
                  !.pc = "trip",
                  !.requests = Append(@, Request("trip", TripProfile(ProviderMode(rec2.transportMode)), "",
                     TripPoints(StartCoords(rec2), Intermediate(rec2), EndCoords(rec2))))]]
             /\ UNCHANGED <<routeData, isLoading, lastDurations, toasts,
                            routeLayerRef, markersRef>>

OrderingMismatch_MissingOnly(intermediate, tripResp) ==
  Len(intermediate) > 1 /\ tripResp.waypoint_order = <<>>

\* lines 321-324
OrderingMismatch(intermediate, tripResp) ==
  /\ Len(intermediate) > 1
  /\ \/ tripResp.waypoint_order = <<>>
     \/ Len(tripResp.waypoint_order[1]) # Len(intermediate)

UseGreedyInsertion_NoCatch(intermediate, tripResp) ==
  /\ Len(intermediate) > 1
  /\ \/ tripResp.waypoint_order = <<>>
     \/ Len(tripResp.waypoint_order[1]) # Len(intermediate)

\* lines 314-339: the flag is set when the trip client throws (the catch)
\* and when the ordering does not match
UseGreedyInsertion(intermediate, tripResp) ==
  tripResp.threw \/ OrderingMismatch(intermediate, tripResp)

\* lines 348-351
InsertionInput(intermediate, endCoords, geocodedEnd) ==
  IF endCoords # <<>>
  THEN Append(intermediate, Leg(endCoords, geocodedEnd[1]))
  ELSE intermediate

FastRouteToast ==
  Toast("Fast route calculated!",
        "Found a smart shortcut for your stops to save you time.", "")

\* lines 311-367 and 419-424: the trip service has answered; its trip is
\* accepted and the route delivered, or the stops are reordered by
\* calculateGreedyInsertionOrder and the first segment is requested
TripReturn(c, resp) ==
  /\ call[c].pc = "trip"
  /\ UNCHANGED <<waypoints, transportMode, currentLocation, leaflet, ordering>>
  /\ LET rec == call[c]
         intermediate == Intermediate(rec)
         endCoords == EndCoords(rec)
         startCoords == StartCoords(rec)
         tripResp == fetchOSRMTripRoute(intermediate, resp)
         useGreedyInsertion == UseGreedyInsertion(intermediate, tripResp)
         reordered ==
           calculateGreedyInsertionOrder(startCoords,
             InsertionInput(intermediate, endCoords, rec.geocodedEnd), endCoords)
         rec2 == [rec EXCEPT
                    !.tripResp = IF tripResp.threw THEN "null" ELSE "object",
                    !.useGreedyInsertion = useGreedyInsertion]
     IN IF ~useGreedyInsertion
        THEN Finish(c, rec2, tripResp.reordered, tripResp.geometry,
                    tripResp.distance, tripResp.duration * DurUnit, <<>>)
        ELSE IF Len(reordered) = 0
        THEN Finish(c, rec2, reordered, <<>>, 0, 0, <<FastRouteToast>>)
        ELSE /\ toasts' = Append(toasts, FastRouteToast)
             /\ call' = [call EXCEPT ![c] = [rec2 EXCEPT
                  !.pc = "segment",
                  !.reordered = reordered,
                  !.i = 1,
                  !.prev = reordered[1].coords,
                  !.requests = Append(@, SegmentRequest(startCoords, reordered[1].coords))]]
             /\ UNCHANGED <<routeData, isLoading, lastDurations, routeLayerRef, markersRef>>

EstimatedDuration_NoSpeed(metres) == metres * DurUnit

\* lines 379-380: seconds at the fallback car speed, in 1/DurUnit s
EstimatedDuration(metres) == (metres * DurUnit) \div SpeedMps

\* lines 368-381: what one answered segment adds to the path and the totals
StitchSegment(rec, segStart, segEnd, segRoute) ==
  IF segRoute.threw
  THEN [allCoords |-> Append(rec.allCoords, <<segEnd[2], segEnd[1]>>),
        totalDist |-> rec.totalDist + haversine(segStart, segEnd),
        totalDur |-> rec.totalDur + EstimatedDuration(haversine(segStart, segEnd))]
  ELSE [allCoords |-> IF Len(rec.allCoords) > 0 /\ Len(segRoute.geometry) > 1
                      THEN rec.allCoords \o Tail(segRoute.geometry)
                      ELSE rec.allCoords \o segRoute.geometry,
        totalDist |-> rec.totalDist + segRoute.distance,
        totalDur |-> rec.totalDur + segRoute.duration * DurUnit]

\* lines 356-383 and on: the segment service has answered for leg i; the
\* next leg is requested, or the route is delivered
SegmentReturn(c, resp) ==
  /\ call[c].pc = "segment"
  /\ UNCHANGED <<waypoints, transportMode, currentLocation, leaflet, ordering>>
  /\ LET rec == call[c]
         asked == rec.requests[Len(rec.requests)].points
         segStart == asked[1]
         segEnd == asked[2]
         segRoute == fetchOSRMRoute(resp)
         st == StitchSegment(rec, segStart, segEnd, segRoute)
         rec2 == [rec EXCEPT
                    !.allCoords = st.allCoords,
                    !.totalDist = st.totalDist,
                    !.totalDur = st.totalDur,
                    !.segments = Append(@, [from |-> segStart, to |-> segEnd,
                                            threw |-> segRoute.threw,
                                            distance |-> segRoute.distance,
                                            duration |-> segRoute.duration])]
     IN IF rec.i < Len(rec.reordered)
        THEN /\ call' = [call EXCEPT ![c] = [rec2 EXCEPT
                  !.i = rec.i + 1,
                  !.prev = rec.reordered[rec.i + 1].coords,
                  !.requests = Append(@, SegmentRequest(rec.prev,
                                           rec.reordered[rec.i + 1].coords))]]
             /\ UNCHANGED <<routeData, isLoading, lastDurations, toasts,
                            routeLayerRef, markersRef>>
        ELSE Finish(c, rec2, rec.reordered, st.allCoords, st.totalDist, st.totalDur, <<>>)

\* the answers the collaborators can give to the outstanding request
OutstandingTripAnswers(c) ==
  IF call[c].pc = "trip"
  THEN TripResponses(call[c].requests[Len(call[c].requests)].points,
                     Len(call[c].geocodedIntermediate))
  ELSE {}

OutstandingSegmentAnswers(c) ==
  IF call[c].pc = "segment"
  THEN SegmentResponses(call[c].requests[Len(call[c].requests)].points[1],
                        call[c].requests[Len(call[c].requests)].points[2])
  ELSE {}

Next ==
  \E c \in MainCalls :
    \/ CalculateRoute(c)
    \/ \E m \in TransportModes : SetTransportMode(c, m)
    \/ \E coordinates \in GeocoderAnswers : GeocodeReturn(c, coordinates)
    \/ \E resp \in OutstandingTripAnswers(c) : TripReturn(c, resp)
    \/ \E resp \in OutstandingSegmentAnswers(c) : SegmentReturn(c, resp)

Spec == Init /\ [][Next]_vars

\* an awaited request of some invocation returns or fails
GeocoderReturns ==
  \E c \in MainCalls :
    \E coordinates \in GeocoderAnswers : GeocodeReturn(c, coordinates)

TripReturns ==
  \E c \in MainCalls :
    \E resp \in OutstandingTripAnswers(c) : TripReturn(c, resp)

SegmentReturns ==
  \E c \in MainCalls :
    \E resp \in OutstandingSegmentAnswers(c) : SegmentReturn(c, resp)

\* a trip request, a segment request is outstanding: the states where
\* TripReturns, SegmentReturns can happen
TripPending == \E c \in MainCalls : call[c].pc = "trip"
SegmentPending == \E c \in MainCalls : call[c].pc = "segment"

\* the caller with its location and map in place and only stops to route
FairInit ==
  /\ Init
  /\ currentLocation # <<>>
  /\ leaflet
  /\ Len(waypoints) > 0
  /\ \A k \in 1..Len(waypoints) : IsAvailable(waypoints[k]) /\ waypoints[k].name # ""

\* every request issued is answered in the end: the awaits of lines 277,
\* 286, 316 and 363 resume.  The last two conjuncts are weak fairness of
\* TripReturns and of SegmentReturns with the enabling condition written
\* out as TripPending and SegmentPending.
FairSpec ==
  /\ FairInit
  /\ [][Next]_vars
  /\ WF_vars(GeocoderReturns)
  /\ ([]<>~TripPending \/ []<><<TripReturns>>_vars)
  /\ ([]<>~SegmentPending \/ []<><<SegmentReturns>>_vars)


\* ------------------------------------------------------------------------
\* Overlapping invocations: the transport mode effect of RouteApp.tsx
\* 153-163 calls calculateMultiPointRoute whatever is in flight, and the
\* button is enabled again as soon as any invocation has reached its
\* finally.  The location and the map are there, the stops are all to be
\* routed, and the services answer from the subsets below.
\* ------------------------------------------------------------------------
ConcurrentCalls == {1, 2}

ConcurrentWaypoints ==
  {w \in LoadableWaypoints :
     /\ Len(w) \in 1..2
     /\ \A k \in 1..Len(w) : IsAvailable(w[k]) /\ w[k].name # ""}

ConcurrentGeocoderAnswers == {<<0, 1>>, <<>>}

ConcurrentTripAnswers(c) ==
  {r \in OutstandingTripAnswers(c) : r.waypoint_order = <<>>}

ConcurrentSegmentAnswers(c) ==
  {r \in OutstandingSegmentAnswers(c) :
     r.kind = "transport" \/ (r.kind = "route" /\ r.coordinates[1] # SnappedPoint)}

\* the invocations are numbered in the order of their calls
NextCall(c) ==
  /\ call[c].pc = "idle"
  /\ \A d \in DOMAIN call : d < c => call[d].pc # "idle"

ConcurrentInit ==
  /\ waypoints \in ConcurrentWaypoints
  /\ transportMode = "driving"
  /\ currentLocation = <<DeviceLocation>>
  /\ leaflet = TRUE
  /\ routeData = <<>>
  /\ isLoading = FALSE
  /\ lastDurations = [m \in TransportModes |-> <<>>]
  /\ toasts = <<>>
  /\ routeLayerRef = <<>>
  /\ markersRef = <<UserMarker>>
  /\ call = [c \in ConcurrentCalls |-> IdleCall]
  /\ ordering = IdleOrdering

ConcurrentNext ==
  \E c \in ConcurrentCalls :
    \/ NextCall(c) /\ CalculateRoute(c)
    \/ \E m \in TransportModes : NextCall(c) /\ SetTransportMode(c, m)
    \/ \E coordinates \in ConcurrentGeocoderAnswers : GeocodeReturn(c, coordinates)
    \/ \E resp \in ConcurrentTripAnswers(c) : TripReturn(c, resp)
    \/ \E resp \in ConcurrentSegmentAnswers(c) : SegmentReturn(c, resp)

ConcurrentSpec == ConcurrentInit /\ [][ConcurrentNext]_vars


\* ------------------------------------------------------------------------
\* The heuristic orderers on their own: calculateGreedyInsertionOrder one
\* iteration of its while loop at a time, calculateNearestNeighborOrder in
\* one step, on every input of the grid
\* ------------------------------------------------------------------------
\* [lon, lat] points of the whole-degree grid
GridPoints == {<<lon, lat>> : lon \in 0..2, lat \in 0..2}
OrderStarts == {<<0, 0>>, <<1, 1>>}

\* the geocoded stop number k at point p (lines 281 and 290)
GeocodedStop(k, p) ==
  [id |-> StopIdText[k], address |-> AddressText[k], name |-> NameText[k],
   visited |-> FALSE, isEndPoint |-> FALSE, coordinates |-> p]

\* the lists of legs over the grid, leg k carrying stop k (lines 300-303)
LegLists(n) ==
  {[k \in 1..n |-> Leg(coords[k], GeocodedStop(k, coords[k]))] :
     coords \in [1..n -> GridPoints]}

OrderInit ==
  /\ waypoints = <<>>
  /\ transportMode = "driving"
  /\ currentLocation = <<>>
  /\ leaflet = FALSE
  /\ routeData = <<>>
  /\ isLoading = FALSE
  /\ lastDurations = [m \in TransportModes |-> <<>>]
  /\ toasts = <<>>
  /\ routeLayerRef = <<>>
  /\ markersRef = <<>>
  /\ call = [c \in MainCalls |-> IdleCall]
  /\ \E start \in OrderStarts, n \in 0..MaxLegs :
       \E legs \in LegLists(n), endCoords \in GridPoints \cup {<<>>} :
         ordering = [IdleOrdering EXCEPT !.start = start, !.waypoints = legs,
                                         !.endCoords = endCoords]

\* lines 87-117: the early return on no waypoints, or the working copy and
\* the seed route
GreedySeedStep ==
  /\ ordering.pc = "input"
  /\ UNCHANGED appVars
  /\ IF Len(ordering.waypoints) = 0
     THEN ordering' = [ordering EXCEPT !.pc = "returned", !.greedy = << <<>> >>]
     ELSE LET seed == GreedySeed(ordering.start, ordering.waypoints, ordering.endCoords)
          IN ordering' = [ordering EXCEPT !.pc = "inserting",
                                          !.toInsert = seed.toInsert,
                                          !.route = seed.route]

GreedyInsertStep_InPlace ==
  /\ ordering.pc = "inserting"
  /\ Len(ordering.toInsert) > 0
  /\ UNCHANGED appVars
  /\ LET best == ScanInsertions(ordering.toInsert, ordering.route, 1, 1,
                    [bestIncrease |-> 0, bestIdx |-> 0, bestPos |-> 1])
     IN ordering' = [ordering EXCEPT
                       !.best = best,
                       !.route = InsertAt(@, best.bestPos + 1,
                                          ordering.toInsert[best.bestIdx]),
                       !.toInsert = RemoveAt(@, best.bestIdx),
                       !.waypoints = RemoveAt(ordering.toInsert, best.bestIdx)]

\* lines 120-141: one iteration of while (toInsert.length); the splices act
\* on the working copy of line 87 and on the route
GreedyInsertStep ==
  /\ ordering.pc = "inserting"
  /\ Len(ordering.toInsert) > 0
  /\ UNCHANGED appVars
  /\ LET best == ScanInsertions(ordering.toInsert, ordering.route, 1, 1,
                    [bestIncrease |-> 0, bestIdx |-> 0, bestPos |-> 1])
     IN ordering' = [ordering EXCEPT
                       !.best = best,
                       !.route = InsertAt(@, best.bestPos + 1,
                                          ordering.toInsert[best.bestIdx]),
                       !.toInsert = RemoveAt(@, best.bestIdx)]

\* lines 143-146: the loop has ended; the dummies go and the route returns
GreedyReturn ==
  /\ ordering.pc = "inserting"
  /\ Len(ordering.toInsert) = 0
  /\ UNCHANGED appVars
  /\ ordering' = [ordering EXCEPT !.pc = "returned",
                                  !.greedy = <<StripDummies(ordering.route)>>]

\* lines 164-199 in one step
NearestNeighbor ==
  /\ ordering.nearest = <<>>
  /\ UNCHANGED appVars
  /\ ordering' = [ordering EXCEPT !.nearest =
       <<calculateNearestNeighborOrder(ordering.start, ordering.waypoints,
                                       ordering.endCoords)>>]

OrderNext ==
  \/ GreedySeedStep
  \/ GreedyInsertStep
  \/ GreedyReturn
  \/ NearestNeighbor

OrderSpec == OrderInit /\ [][OrderNext]_vars

\* ------------------------------------------------------------------------
\* The stop list in the hands of the user: RouteSidebar.tsx 41-157 and
\* handleResetApp (RouteApp.tsx 79-106), from the list of a first visit
\* ------------------------------------------------------------------------
\* { id: generateUID(), address: "", name: "" }
EmptyWaypoint(id) ==
  [id |-> id, address |-> "", name |-> "", visited |-> FALSE,
   isEndPoint |-> FALSE, coordinates |-> <<>>]

\* generateUID never repeats an id of the list
FreshIds(ws) ==
  {StopIdText[k] : k \in 1..MaxStops} \ {ws[k].id : k \in 1..Len(ws)}

\* what the user can type into a field
TypedTexts(field) ==
  IF field = "address" THEN {"", " ", AddressText[1]} ELSE {"", NameText[1]}

\* the rows of an imported file: name and address trimmed, rows without an
\* address filtered out (RouteSidebar.tsx 78-98 and 107-130)
ImportedLists ==
  UNION {[1..n -> {[id |-> "", address |-> a, name |-> m, visited |-> FALSE,
                    isEndPoint |-> FALSE, coordinates |-> <<>>] :
                     a \in {AddressText[1], AddressText[2]}, m \in {"", NameText[1]}}]
           : n \in 0..2}

\* RouteSidebar.tsx 143-148
AddWaypoint ==
  /\ Len(waypoints) < MaxStops
  /\ \E id \in FreshIds(waypoints) :
       waypoints' = Append(waypoints, EmptyWaypoint(id))

\* RouteSidebar.tsx 149-152
RemoveWaypoint(id) ==
  /\ Len(waypoints) > 1
  /\ waypoints' = FilterSeq(waypoints, [k \in 1..Len(waypoints) |-> waypoints[k].id # id])

\* RouteSidebar.tsx 153-157, called on blur when the text has changed
\* (WaypointInput.tsx 33-42)
UpdateWaypoint(id, value, field) ==
  /\ \E k \in 1..Len(waypoints) : waypoints[k].id = id /\ waypoints[k][field] # value
  /\ waypoints' = [k \in 1..Len(waypoints) |->
                     IF waypoints[k].id = id
                     THEN [waypoints[k] EXCEPT ![field] = value]
                     ELSE waypoints[k]]

\* RouteSidebar.tsx 42-48
ToggleVisited(id) ==
  waypoints' = [k \in 1..Len(waypoints) |->
                  IF waypoints[k].id = id
                  THEN [waypoints[k] EXCEPT !.visited = ~@]
                  ELSE waypoints[k]]

SetEndPoint_KeepsOthers(id) ==
  waypoints' = [k \in 1..Len(waypoints) |->
                  IF waypoints[k].id = id
                  THEN [waypoints[k] EXCEPT !.isEndPoint = TRUE]
                  ELSE waypoints[k]]

\* RouteSidebar.tsx 51-59
SetEndPoint(id) ==
  waypoints' = [k \in 1..Len(waypoints) |->
                  [waypoints[k] EXCEPT !.isEndPoint = (waypoints[k].id = id)]]

\* RouteSidebar.tsx 62-136: the list is replaced when the file has rows
FileUpload(rows) ==
  /\ Len(rows) > 0
  /\ waypoints' = [k \in 1..Len(rows) |-> [rows[k] EXCEPT !.id = StopIdText[k]]]

\* RouteApp.tsx 79-106; map.current exists once leaflet has loaded
ResetApp ==
  /\ \E id \in {StopIdText[k] : k \in 1..MaxStops} :
       waypoints' = <<EmptyWaypoint(id)>>
  /\ transportMode' = "driving"
  /\ currentLocation' = <<>>
  /\ routeData' = <<>>
  /\ isLoading' = FALSE
  /\ IF leaflet
     THEN routeLayerRef' = <<>> /\ markersRef' = <<>>
     ELSE UNCHANGED <<routeLayerRef, markersRef>>
  /\ UNCHANGED <<leaflet, lastDurations, toasts, call, ordering>>

\* the list of RouteApp.tsx 33 on a first visit, the location found and the
\* map loaded; what a later visit loads is a list an earlier one has saved
\* (RouteApp.tsx 72-76)
UiInit ==
  /\ waypoints = <<EmptyWaypoint(StopIdText[1])>>
  /\ transportMode = "driving"
  /\ currentLocation = <<DeviceLocation>>
  /\ leaflet = TRUE
  /\ routeData = <<>>
  /\ isLoading = FALSE
  /\ lastDurations = [m \in TransportModes |-> <<>>]
  /\ toasts = <<>>
  /\ routeLayerRef = <<>>
  /\ markersRef = <<UserMarker>>
  /\ call = [c \in MainCalls |-> IdleCall]
  /\ ordering = IdleOrdering

ListEdit ==
  \/ AddWaypoint
  \/ \E k \in 1..Len(waypoints) : RemoveWaypoint(waypoints[k].id)
  \/ \E k \in 1..Len(waypoints), field \in {"address", "name"} :
       \E value \in TypedTexts(field) : UpdateWaypoint(waypoints[k].id, value, field)
  \/ \E k \in 1..Len(waypoints) : ToggleVisited(waypoints[k].id)
  \/ \E k \in 1..Len(waypoints) : SetEndPoint(waypoints[k].id)
  \/ \E rows \in ImportedLists : FileUpload(rows)

UiNext ==
  \/ ListEdit /\ UNCHANGED <<transportMode, currentLocation, leaflet, routeData,
                              isLoading, lastDurations, toasts, routeLayerRef,
                              markersRef, call, ordering>>
  \/ ResetApp

UiSpec == UiInit /\ [][UiNext]_vars

\* Stops that come with coordinates: loadWaypoints (RouteApp.tsx 22-34)
\* returns what the storage held as long as id and address are strings, and
\* Waypoint (routeUtils.ts 11-18) has an optional coordinates field
SuppliedPoint == <<2, 0>>

StoredWaypoints ==
  {[k \in 1..Len(w) |-> [w[k] EXCEPT !.coordinates = coords[k]]] :
     w \in ConcurrentWaypoints, coords \in [1..2 -> {<<>>, SuppliedPoint}]}

StoredInit ==
  /\ waypoints \in StoredWaypoints
  /\ transportMode = "driving"
  /\ currentLocation = <<DeviceLocation>>
  /\ leaflet = TRUE
  /\ routeData = <<>>
  /\ isLoading = FALSE
  /\ lastDurations = [m \in TransportModes |-> <<>>]
  /\ toasts = <<>>
  /\ routeLayerRef = <<>>
  /\ markersRef = <<UserMarker>>
  /\ call = [c \in MainCalls |-> IdleCall]
  /\ ordering = IdleOrdering

StoredSpec == StoredInit /\ [][Next]_vars

\* Repeated invocations, one after the other: the button or a mode button
\* starts an invocation once the one before has ended, with the cache of
\* last durations (lines 270-271, 434) as the earlier ones left it
RepeatCalls == {1, 2, 3}

RepeatInit ==
  /\ waypoints \in ConcurrentWaypoints
  /\ transportMode = "driving"
  /\ currentLocation = <<DeviceLocation>>
  /\ leaflet = TRUE
  /\ routeData = <<>>
  /\ isLoading = FALSE
  /\ lastDurations = [m \in TransportModes |-> <<>>]
  /\ toasts = <<>>
  /\ routeLayerRef = <<>>
  /\ markersRef = <<UserMarker>>
  /\ call = [c \in RepeatCalls |-> IdleCall]
  /\ ordering = IdleOrdering

AfterTheLast(c) ==
  /\ call[c].pc = "idle"
  /\ \A d \in DOMAIN call : d < c => call[d].pc = "done"

RepeatNext ==
  \E c \in RepeatCalls :
    \/ AfterTheLast(c) /\ CalculateRoute(c)
    \/ \E m \in TransportModes : AfterTheLast(c) /\ SetTransportMode(c, m)
    \/ \E coordinates \in ConcurrentGeocoderAnswers : GeocodeReturn(c, coordinates)
    \/ \E resp \in ConcurrentTripAnswers(c) : TripReturn(c, resp)
    \/ \E resp \in ConcurrentSegmentAnswers(c) : SegmentReturn(c, resp)

RepeatSpec == RepeatInit /\ [][RepeatNext]_vars

\* Reset next to the route calculation: the user has a location and stops
\* to route, calculates (useRouteCalculation.ts 223-623), and may press
\* Reset (RouteApp.tsx 79-106) at any moment, a computation in flight or not
ResetCalls == {1, 2}

ResetInit ==
  /\ waypoints \in ConcurrentWaypoints
  /\ transportMode = "driving"
  /\ currentLocation = <<DeviceLocation>>
  /\ leaflet = TRUE
  /\ routeData = <<>>
  /\ isLoading = FALSE
  /\ lastDurations = [m \in TransportModes |-> <<>>]
  /\ toasts = <<>>
  /\ routeLayerRef = <<>>
  /\ markersRef = <<UserMarker>>
  /\ call = [c \in ResetCalls |-> IdleCall]
  /\ ordering = IdleOrdering

ResetNext ==
  \/ \E c \in ResetCalls :
       \/ AfterTheLast(c) /\ CalculateRoute(c)
       \/ \E m \in TransportModes : AfterTheLast(c) /\ SetTransportMode(c, m)
       \/ \E coordinates \in ConcurrentGeocoderAnswers : GeocodeReturn(c, coordinates)
       \/ \E resp \in ConcurrentTripAnswers(c) : TripReturn(c, resp)
       \/ \E resp \in ConcurrentSegmentAnswers(c) : SegmentReturn(c, resp)
  \/ ResetApp

ResetSpec == ResetInit /\ [][ResetNext]_vars

\* The hook and the orderers side by side: a behaviour is one of Spec (the
\* orderers are called inside TripReturn and the ordering record stays idle)
\* or one of OrderSpec (the hook is never invoked)
HookIdle ==
  /\ waypoints = <<>> /\ currentLocation = <<>> /\ ~leaflet
  /\ transportMode = "driving" /\ toasts = <<>>

WholeInit == Init \/ OrderInit

WholeNext ==
  \/ ordering = IdleOrdering /\ Next
  \/ HookIdle /\ OrderNext

WholeSpec == WholeInit /\ [][WholeNext]_vars


\* ------------------------------------------------------------------------
\* Properties
\* ------------------------------------------------------------------------
\* the stops of a list that are to be routed: not visited, address not blank
Remaining(ws) ==
  FilterSeq(ws, [k \in 1..Len(ws) |-> ~ws[k].visited /\ ws[k].address \notin {"", " "}])

Flagged(ws) == {k \in 1..Len(ws) : ws[k].isEndPoint}

\* invocation c has gone past the guard on the location and the map
Admitted(c) ==
  call[c].pc # "idle" /\ call[c].currentLocation # <<>> /\ leaflet

\* invocation c has delivered a RouteArtifact (held in routeData)
Emitted(c) == call[c].pc = "done" /\ call[c].result = "route" /\ routeData # <<>>

\* the stops of invocation c with the coordinates the geocoder gave them
Resolved(c) == call[c].geocodedIntermediate \o call[c].geocodedEnd

ResolvedCoords(c, id) ==
  LET k == CHOOSE j \in 1..Len(Resolved(c)) : Resolved(c)[j].id = id
  IN Resolved(c)[k].coordinates

RequestsOfKind(c, kinds) ==
  {k \in 1..Len(call[c].requests) : call[c].requests[k].kind \in kinds}

LastToast == toasts[Len(toasts)]

\* C1: every emitted RouteArtifact holds, after the start, exactly the
\* remaining stops (not visited, address not blank), each once under its
\* own id and at its own resolved coordinates.
C1_EveryRemainingStopOnce ==
  \A c \in DOMAIN call :
    Emitted(c) =>
      LET wps == Tail(routeData[1].waypoints)
          stops == Remaining(call[c].waypoints)
      IN /\ Len(wps) = Len(stops)
         /\ \A k \in 1..Len(stops) :
              /\ Cardinality({j \in 1..Len(wps) : wps[j].id = stops[k].id}) = 1
              /\ \A j \in 1..Len(wps) :
                   wps[j].id = stops[k].id =>
                     <<wps[j].longitude, wps[j].latitude>> = ResolvedCoords(c, stops[k].id)

\* C2: when one remaining stop is flagged isEndPoint, the last waypoint of
\* every emitted RouteArtifact is that stop: its id, at its own resolved
\* coordinates.
C2_EndStopIsLast ==
  \A c \in DOMAIN call :
    Emitted(c) =>
      LET wps == routeData[1].waypoints
          stops == Remaining(call[c].waypoints)
          last == wps[Len(wps)]
      IN \A k \in 1..Len(stops) :
           Flagged(stops) = {k} =>
             /\ last.id = stops[k].id
             /\ <<last.longitude, last.latitude>> = ResolvedCoords(c, stops[k].id)

\* C3: in every emitted RouteArtifact the first waypoint is the start
\* location with displayNumber 0, and the waypoint at index k carries
\* displayNumber k.
C3_DisplayNumbersContiguous ==
  \A c \in DOMAIN call :
    Emitted(c) =>
      LET wps == routeData[1].waypoints
          location == call[c].currentLocation[1]
      IN /\ wps[1].id = "start"
         /\ wps[1].latitude = location.latitude
         /\ wps[1].longitude = location.longitude
         /\ \A k \in 1..Len(wps) : wps[k].displayNumber = k - 1

C3_Witness ==
  \E c \in DOMAIN call :
    /\ Emitted(c)
    /\ call[c].useGreedyInsertion
    /\ Len(routeData[1].waypoints) = 4

\* C4: a visited stop is never asked of the geocoder, never appears in an
\* emitted RouteArtifact (id, name or address), and is never taken as the
\* end point, even when it is end-flagged.
C4_VisitedNeverRouted ==
  \A c \in DOMAIN call :
    LET ws == call[c].waypoints
        visited == {k \in 1..Len(ws) : ws[k].visited}
    IN /\ \A k \in visited :
            \A r \in RequestsOfKind(c, {"geocode"}) :
              call[c].requests[r].subject # ws[k].id
       /\ call[c].endWaypoint # <<>> => ~call[c].endWaypoint[1].visited
       /\ Emitted(c) =>
            \A k \in visited :
              \A j \in 1..Len(routeData[1].waypoints) :
                /\ routeData[1].waypoints[j].id # ws[k].id
                /\ routeData[1].waypoints[j].name # ws[k].name
                /\ routeData[1].waypoints[j].address # ws[k].address

C4_Witness ==
  \E c \in DOMAIN call :
    /\ Emitted(c)
    /\ Len(routeData[1].waypoints) >= 3
    /\ call[c].endWaypoint = <<>>
    /\ \E k \in 1..Len(call[c].waypoints) :
         call[c].waypoints[k].visited /\ call[c].waypoints[k].isEndPoint

\* C5: with more than one remaining stop flagged isEndPoint the invocation
\* ends in an error without any geocoder, trip or segment request and
\* without a RouteArtifact.
C5_MultipleEndpointsRejected ==
  \A c \in DOMAIN call :
    (Admitted(c) /\ Cardinality(Flagged(Remaining(call[c].waypoints))) > 1) =>
      /\ call[c].pc = "done"
      /\ call[c].result \in {"rejected", "error"}
      /\ call[c].requests = <<>>

\* C6: with a location and no remaining stop the invocation ends at once
\* with the "No destinations" error and issues no request at all.
C6_NoDestinations ==
  \A c \in DOMAIN call :
    (Admitted(c) /\ Len(Remaining(call[c].waypoints)) = 0) =>
      /\ call[c].pc = "done"
      /\ call[c].result = "rejected"
      /\ call[c].requests = <<>>
      /\ LastToast.title = "No destinations"
      /\ routeData = <<>>
      /\ ~isLoading

C6_Witness ==
  \E c \in DOMAIN call :
    /\ Admitted(c)
    /\ call[c].pc = "done"
    /\ Len(call[c].waypoints) >= 2
    /\ Len(Remaining(call[c].waypoints)) = 0
    /\ \E k \in 1..Len(call[c].waypoints) : call[c].waypoints[k].visited
    /\ \E k \in 1..Len(call[c].waypoints) : call[c].waypoints[k].address = " "


\* what holds once the geocoder has failed to resolve a stop of invocation c
UnresolvedOutcome(c) ==
  /\ call[c].pc = "done"
  /\ call[c].result = "error"
  /\ RequestsOfKind(c, {"trip", "route"}) = {}
  /\ LastToast.title = "Route calculation failed"
  /\ LastToast.description \in {"Destination not found", "End destination not found"}
  /\ routeData = <<>>
  /\ ~isLoading

\* C7: when the geocoder cannot resolve a remaining stop the invocation
\* fails with the unresolved-address error, no trip or segment request is
\* ever issued in it, and the route data held afterwards is null.
C7_UnresolvedAddressAborts ==
  /\ [][\A c \in DOMAIN call :
          (call[c].pc = "geocode" /\ GeocodeReturn(c, <<>>)) => UnresolvedOutcome(c)']_vars
  /\ [](\A c \in DOMAIN call : call[c].result = "error" => UnresolvedOutcome(c))

C7_Witness ==
  \E c \in DOMAIN call :
    /\ call[c].result = "error"
    /\ Len(call[c].geocodedIntermediate) >= 1
    /\ LastToast.description = "End destination not found"
    /\ routeData = <<>>

\* the order, the stitching and the delivery of the fallback path
FallbackPath(c) ==
  LET rec == call[c]
      endCoords == EndCoords(rec)
      reordered == rec.reordered
      legs == RequestsOfKind(c, {"route"})
  IN /\ rec.useGreedyInsertion
     /\ rec.pc \in {"segment", "done"}
     /\ rec.result # "error"
     /\ Len(reordered) = Len(Remaining(rec.waypoints))
     /\ reordered = calculateGreedyInsertionOrder(StartCoords(rec),
                      InsertionInput(Intermediate(rec), endCoords, rec.geocodedEnd),
                      endCoords)
     /\ endCoords # <<>> => reordered[Len(reordered)].coords = endCoords
     /\ rec.pc = "done" =>
          /\ Emitted(c)
          /\ Cardinality(legs) = Len(reordered)
          /\ Len(rec.segments) = Len(reordered)
          /\ LET wps == routeData[1].waypoints
             IN /\ Len(wps) = Len(reordered) + 1
                /\ \A k \in 1..Len(reordered) :
                     <<wps[k + 1].longitude, wps[k + 1].latitude>> = reordered[k].coords
                /\ rec.endWaypoint # <<>> =>
                     /\ wps[Len(wps)].id = rec.endWaypoint[1].id
                     /\ <<wps[Len(wps)].longitude, wps[Len(wps)].latitude>> = endCoords

\* C8: when the trip request fails (no trip, geometry absent or malformed,
\* transport failure) the invocation is not aborted: the stops are ordered
\* by calculateGreedyInsertionOrder with the end stop last, one segment is
\* requested per leg and a RouteArtifact is emitted.
C8_TripFailureFallsBack ==
  /\ [][\A c \in DOMAIN call :
          \A resp \in OutstandingTripAnswers(c) :
            (resp.kind # "trip" /\ TripReturn(c, resp)) =>
              (call[c].tripResp = "null" /\ call[c].pc = "segment")']_vars
  /\ [](\A c \in DOMAIN call : call[c].tripResp = "null" => FallbackPath(c))

C8_Witness ==
  \E c \in DOMAIN call :
    /\ call[c].tripResp = "null"
    /\ Emitted(c)
    /\ call[c].endWaypoint # <<>>
    /\ Len(call[c].reordered) = 3

\* the ordering array of a trip answer is missing or of the wrong length
OrderingUnusable(resp, n) ==
  resp.waypoint_order = <<>> \/ Len(resp.waypoint_order[1]) # n

\* C9 as claimed: whenever the ordering array of the trip is missing or of
\* the wrong length the fallback path is taken, for every number of
\* intermediate legs, 0 and 1 included.
C9_MismatchAlwaysFallsBack ==
  [][\A c \in DOMAIN call :
       \A resp \in OutstandingTripAnswers(c) :
         (/\ resp.kind = "trip"
          /\ OrderingUnusable(resp, Len(call[c].geocodedIntermediate))
          /\ TripReturn(c, resp))
         => (call[c].useGreedyInsertion /\ call[c].pc = "segment")']_vars

\* C9 amended: with more than one intermediate leg, a trip whose ordering
\* array is missing or of the wrong length is not accepted: the fallback
\* path is taken and it emits a RouteArtifact with every leg in order; with
\* 0 or 1 intermediate leg the trip is accepted in input order.
C9_MismatchFallsBackAboveOneLeg ==
  /\ [][\A c \in DOMAIN call :
          \A resp \in OutstandingTripAnswers(c) :
            (/\ resp.kind = "trip"
             /\ OrderingUnusable(resp, Len(call[c].geocodedIntermediate))
             /\ TripReturn(c, resp))
            => IF Len(call[c].geocodedIntermediate) > 1
               THEN (call[c].tripResp = "object" /\ call[c].pc = "segment")'
               ELSE (~call[c].useGreedyInsertion /\ Emitted(c))']_vars
  /\ [](\A c \in DOMAIN call :
          (call[c].tripResp = "object" /\ call[c].useGreedyInsertion) => FallbackPath(c))

C9_Witness ==
  \E c \in DOMAIN call :
    /\ call[c].tripResp = "object"
    /\ call[c].useGreedyInsertion
    /\ Emitted(c)
    /\ Len(call[c].geocodedIntermediate) = 2
    /\ call[c].endWaypoint # <<>>

RECURSIVE SumOver(_, _)
SumOver(f, n) == IF n = 0 THEN 0 ELSE f[n] + SumOver(f, n - 1)

\* C10: on the fallback path a leg whose segment request fails does not
\* stop the invocation; it adds its great-circle distance to the total
\* distance and that distance / 13 to the duration before compensation,
\* while every other leg adds the distance and duration of its segment.
C10_FailedLegEstimated ==
  \A c \in DOMAIN call :
    (call[c].useGreedyInsertion /\ call[c].pc = "done") =>
      LET segs == call[c].segments
          n == Len(segs)
          d == [k \in 1..n |-> IF segs[k].threw
                               THEN haversine(segs[k].from, segs[k].to)
                               ELSE SegmentMetrics.distance]
          t == [k \in 1..n |-> IF segs[k].threw
                               THEN (haversine(segs[k].from, segs[k].to) * 26) \div 13
                               ELSE SegmentMetrics.duration * 26]
      IN /\ Emitted(c)
         /\ n = Len(call[c].reordered)
         /\ \A k \in 1..n :
              /\ segs[k].to = call[c].reordered[k].coords
              /\ segs[k].from = IF k = 1 THEN StartCoords(call[c])
                                ELSE call[c].reordered[k - 1].coords
         /\ routeData[1].distance = SumOver(d, n)
         /\ call[c].totalDur = SumOver(t, n)
         /\ routeData[1].duration = ShownDuration(call[c].transportMode, SumOver(t, n))

C10_Witness ==
  \E c \in DOMAIN call :
    /\ call[c].useGreedyInsertion
    /\ Emitted(c)
    /\ Len(call[c].segments) = 3
    /\ call[c].segments[1].threw
    /\ ~call[c].segments[2].threw
    /\ call[c].segments[3].threw

\* the driving duration invocation c has aggregated, in 1/DurUnit s: the
\* trip's duration when the trip was accepted, and otherwise the sum over
\* the legs of the segment's duration or the estimate of a failed leg
AggregatedDuration(c) ==
  LET segs == call[c].segments
      t == [k \in 1..Len(segs) |->
              IF segs[k].threw
              THEN (haversine(segs[k].from, segs[k].to) * DurUnit) \div SpeedMps
              ELSE SegmentMetrics.duration * DurUnit]
  IN IF call[c].useGreedyInsertion THEN SumOver(t, Len(segs))
     ELSE TripMetrics.duration * DurUnit

\* C11: the duration of every emitted RouteArtifact is the aggregated
\* driving duration times 3 for walking, times 1.5 for cycling and times 1
\* for driving, on the accepted-trip path and on the fallback path; a trip
\* of 600 s gives 1800 s for walking.
C11_DurationCompensatedOnce ==
  \A c \in DOMAIN call :
    Emitted(c) =>
      LET mode == call[c].transportMode
          shown == routeData[1].duration
          aggregate == AggregatedDuration(c)
      IN /\ mode = "walking" => shown = 3 * aggregate
         /\ mode = "cycling" => 2 * shown = 3 * aggregate
         /\ mode = "driving" => shown = aggregate
         /\ (mode = "walking" /\ ~call[c].useGreedyInsertion) => shown = 1800 * DurUnit
         /\ lastDurations[mode] = <<shown>>

C11_Witness ==
  \E c \in DOMAIN call :
    /\ Emitted(c)
    /\ call[c].transportMode = "cycling"
    /\ call[c].useGreedyInsertion
    /\ Len(call[c].segments) >= 2
    /\ call[c].segments[1].threw
    /\ ~call[c].segments[2].threw
    /\ routeData[1].duration > 0

\* invocation c is past validation and has not finished
InFlight(c) == call[c].pc \in {"geocode", "trip", "segment"}

\* C18: an invocation that has passed validation finishes, provided its
\* requests are answered; the step that finishes it either delivers one
\* RouteArtifact and no error or reports one error and no RouteArtifact,
\* and it clears the loading flag.
C18_FinishesWithRouteOrError ==
  /\ \A c \in MainCalls : InFlight(c) ~> (call[c].pc = "done" /\ ~isLoading)
  /\ [][\A c \in MainCalls :
          (InFlight(c) /\ call'[c].pc = "done") =>
            /\ ~isLoading'
            /\ Len(toasts') = Len(toasts) + 1
                 \/ (Len(toasts') = Len(toasts) + 2
                       /\ toasts'[Len(toasts) + 1] = FastRouteToast)
            /\ \/ /\ call'[c].result = "route"
                  /\ routeData' # <<>>
                  /\ routeData' # routeData
                  /\ toasts'[Len(toasts')].title # "Route calculation failed"
               \/ /\ call'[c].result = "error"
                  /\ routeData' = <<>>
                  /\ toasts'[Len(toasts')].title = "Route calculation failed"]_vars
  /\ [][\A c \in MainCalls :
          InFlight(c) =>
            (call'[c].pc # "done" =>
               (isLoading' /\ routeData' = <<>> /\ Len(toasts') <= Len(toasts) + 1))]_vars

C18_Witness ==
  \E c \in DOMAIN call :
    /\ call[c].pc = "done"
    /\ call[c].result = "route"
    /\ Len(call[c].segments) = 2
    /\ call[c].segments[2].threw
    /\ ~isLoading
    /\ routeData # <<>>
    /\ Len(toasts) = 2

\* the answers invocation c has received: one per resolved stop, one for
\* the stop that was not found, the trip's, one per stitched leg
Answered(c) ==
  Len(call[c].geocodedIntermediate) + Len(call[c].geocodedEnd)
    + (IF call[c].result = "error" THEN 1 ELSE 0)
    + (IF call[c].tripResp # "unset" THEN 1 ELSE 0)
    + Len(call[c].segments)

RequestRank(kind) ==
  IF kind = "geocode" THEN 1 ELSE IF kind = "trip" THEN 2 ELSE 3

\* C19: an invocation has at most one request outstanding, each request is
\* issued in the step that received the answer to the one before, and the
\* requests go: geocoder requests, one stop each; then one trip request;
\* then, on the fallback path only, one segment request per leg in the
\* order of the route, from the previous point to the leg's.
C19_OneRequestAtATime ==
  /\ [](\A c \in DOMAIN call :
          LET reqs == call[c].requests
              geo == RequestsOfKind(c, {"geocode"})
              trips == RequestsOfKind(c, {"trip"})
              legs == RequestsOfKind(c, {"route"})
              first == Cardinality(geo) + Cardinality(trips)
          IN /\ Len(reqs) - Answered(c) = IF InFlight(c) THEN 1 ELSE 0
             /\ \A j, k \in 1..Len(reqs) :
                  j < k => RequestRank(reqs[j].kind) <= RequestRank(reqs[k].kind)
             /\ \A j, k \in geo : j # k => reqs[j].subject # reqs[k].subject
             /\ Cardinality(geo) <= Len(Remaining(call[c].waypoints))
             /\ Cardinality(trips) <= 1
             /\ trips # {} => Cardinality(geo) = Len(Remaining(call[c].waypoints))
             /\ legs # {} =>
                  /\ Cardinality(trips) = 1
                  /\ call[c].useGreedyInsertion
                  /\ Cardinality(legs) <= Len(call[c].reordered)
             /\ \A k \in legs :
                  reqs[k].points =
                    <<IF k = first + 1 THEN StartCoords(call[c])
                      ELSE call[c].reordered[k - first - 1].coords,
                      call[c].reordered[k - first].coords>>
             /\ (call[c].result = "route" /\ call[c].useGreedyInsertion) =>
                  Cardinality(legs) = Len(call[c].reordered)
             /\ (call[c].result = "route" /\ ~call[c].useGreedyInsertion) => legs = {})
  /\ [][\A c \in DOMAIN call :
          /\ Len(call'[c].requests) \in {Len(call[c].requests), Len(call[c].requests) + 1}
          /\ SubSeq(call'[c].requests, 1, Len(call[c].requests)) = call[c].requests
          /\ (Len(call'[c].requests) > Len(call[c].requests) /\ call[c].requests # <<>>)
               => Answered(c)' = Answered(c) + 1]_vars

C19_Witness ==
  \E c \in DOMAIN call :
    /\ call[c].pc = "segment"
    /\ Cardinality(RequestsOfKind(c, {"geocode"})) = 3
    /\ Cardinality(RequestsOfKind(c, {"route"})) = 3
    /\ Len(call[c].segments) = 2
    /\ call[c].endWaypoint # <<>>

\* C20: the geocoder is asked for the remaining stops in their input order,
\* the end-flagged stop at its own place, and the unresolved-address error
\* names the stop at which that order stopped.
C20_GeocodeInInputOrder ==
  \A c \in DOMAIN call :
    LET stops == Remaining(call[c].waypoints)
        geo == RequestsOfKind(c, {"geocode"})
    IN /\ \A k \in geo : call[c].requests[k].subject = stops[k].id
       /\ (call[c].result = "error" /\ geo # {}) =>
            LastToast.subject = stops[Cardinality(geo)].address

\* ------------------------------------------------------------------------
\* Properties of the orderers
\* ------------------------------------------------------------------------
\* the input legs whose destination is the end point handed to the orderer
EndLegs ==
  {k \in 1..Len(ordering.waypoints) :
     ordering.endCoords # <<>> /\ ordering.waypoints[k].coords = ordering.endCoords}

LastOf(s) == s[Len(s)]

\* the ids of the stops of a returned sequence, "?" where an element does
\* not carry a stop
StopIds(legs) ==
  [k \in 1..Len(legs) |-> IF "id" \in DOMAIN legs[k].waypoint
                          THEN legs[k].waypoint.id ELSE "?"]

\* the length of the path from start through the legs in order
RECURSIVE PathLength(_, _)
PathLength(from, legs) ==
  IF Len(legs) = 0 THEN 0
  ELSE haversine(from, legs[1].coords) + PathLength(legs[1].coords, Tail(legs))

\* C12: when the end point matches the destination of one input leg, the
\* last element returned by calculateGreedyInsertionOrder and by
\* calculateNearestNeighborOrder is that input leg.
C12_EndLegLast ==
  \A e \in 1..Len(ordering.waypoints) :
    EndLegs = {e} =>
      /\ ordering.greedy # <<>> => LastOf(ordering.greedy[1]) = ordering.waypoints[e]
      /\ ordering.nearest # <<>> => LastOf(ordering.nearest[1]) = ordering.waypoints[e]

\* the input is start (0,0) and the two stops a (first) and b, no end point
ExampleInput(a, b) ==
  /\ ordering.start = <<0, 0>>
  /\ ordering.endCoords = <<>>
  /\ Len(ordering.waypoints) = 2
  /\ ordering.waypoints[1].coords = a
  /\ ordering.waypoints[2].coords = b

\* C13: with no end point, for start (0,0) calculateGreedyInsertionOrder
\* returns [A, B] on [A=(0,1), B=(0,2)] and [B, A] on [A=(0,2), B=(0,1)]:
\* the stop nearer to the start comes first.
C13_GreedyNearerFirst ==
  ordering.greedy # <<>> =>
    /\ ExampleInput(<<0, 1>>, <<0, 2>>) => StopIds(ordering.greedy[1]) = <<"id1", "id2">>
    /\ ExampleInput(<<0, 2>>, <<0, 1>>) => StopIds(ordering.greedy[1]) = <<"id2", "id1">>

\* the index in the input of a returned leg (the legs carry distinct stops)
InputIndex(leg) ==
  CHOOSE j \in 1..Len(ordering.waypoints) : ordering.waypoints[j] = leg

\* C14: calculateNearestNeighborOrder returns the input legs so that the
\* first leg matching the end point comes last and every other place holds
\* the leg closest to the previous point (the start at first) among the legs
\* not yet placed, the earliest in input order among the closest; for start
\* (0,0) it returns [A, B] on [A=(0,1), B=(0,2)] and [B, A] on
\* [A=(0,2), B=(0,1)].
C14_NearestNeighborSequence ==
  ordering.nearest # <<>> =>
    LET ws == ordering.waypoints
        out == ordering.nearest[1]
        n == Len(ws)
        e == IF EndLegs = {} THEN 0
             ELSE CHOOSE k \in EndLegs : \A j \in EndLegs : k <= j
        m == IF e = 0 THEN n ELSE n - 1
        tail(k) == IF k = 1 THEN ordering.start ELSE out[k - 1].coords
        unplaced(k) ==
          {j \in 1..n : j # e /\ \A i \in 1..(k - 1) : InputIndex(out[i]) # j}
    IN /\ Len(out) = n
       /\ \A k \in 1..n : \E j \in 1..n : out[k] = ws[j]
       /\ e # 0 => out[n] = ws[e]
       /\ \A k \in 1..m :
            LET chosen == InputIndex(out[k])
                d(j) == haversine(tail(k), ws[j].coords)
            IN /\ chosen \in unplaced(k)
               /\ \A j \in unplaced(k) :
                    d(chosen) < d(j) \/ (d(chosen) = d(j) /\ chosen <= j)
       /\ ExampleInput(<<0, 1>>, <<0, 2>>) => StopIds(out) = <<"id1", "id2">>
       /\ ExampleInput(<<0, 2>>, <<0, 1>>) => StopIds(out) = <<"id2", "id1">>

\* an end leg was set aside and two legs at the same distance from the
\* start were ordered
C14_Witness ==
  /\ ordering.nearest # <<>>
  /\ Len(ordering.waypoints) = 3
  /\ EndLegs = {1}
  /\ ordering.waypoints[2].coords # ordering.waypoints[3].coords
  /\ haversine(ordering.start, ordering.waypoints[2].coords)
       = haversine(ordering.start, ordering.waypoints[3].coords)
  /\ StopIds(ordering.nearest[1]) = <<"id2", "id3", "id1">>

\* the extra distance of putting candidate i between route[pos] and
\* route[pos + 1]
ExtraDistance(toInsert, route, i, pos) ==
  haversine(route[pos].coords, toInsert[i].coords)
    + haversine(toInsert[i].coords, route[pos + 1].coords)
    - haversine(route[pos].coords, route[pos + 1].coords)

\* C15: calculateGreedyInsertionOrder seeds the route with [start, end], or
\* [start, start] when no end point is given, and every iteration inserts
\* the candidate and position of least extra distance
\* dist(prev,c) + dist(c,next) - dist(prev,next) over all candidates and all
\* adjacent pairs of the route, the lowest candidate index and then the
\* lowest position winning among equals.
C15_CheapestInsertion ==
  /\ [][GreedySeedStep =>
          (ordering'.pc = "inserting" =>
             LET route == ordering'.route
             IN /\ Len(route) = 2
                /\ route[1].coords = ordering.start
                /\ route[2].coords = IF EndLegs # {} THEN ordering.endCoords
                                     ELSE ordering.start
                /\ Len(ordering'.toInsert)
                     = Len(ordering.waypoints) - (IF EndLegs # {} THEN 1 ELSE 0))]_vars
  /\ [][GreedyInsertStep =>
          LET toInsert == ordering.toInsert
              route == ordering.route
              bi == ordering'.best.bestIdx
              bp == ordering'.best.bestPos
              cost(i, pos) == ExtraDistance(toInsert, route, i, pos)
          IN /\ bi \in 1..Len(toInsert)
             /\ bp \in 1..(Len(route) - 1)
             /\ ordering'.best.bestIncrease = cost(bi, bp)
             /\ \A i \in 1..Len(toInsert), pos \in 1..(Len(route) - 1) :
                  \/ cost(bi, bp) < cost(i, pos)
                  \/ /\ cost(bi, bp) = cost(i, pos)
                     /\ (bi < i \/ (bi = i /\ bp <= pos))
             /\ Len(ordering'.route) = Len(route) + 1
             /\ ordering'.route[bp + 1] = toInsert[bi]
             /\ \A k \in 1..bp : ordering'.route[k] = route[k]
             /\ \A k \in (bp + 1)..Len(route) : ordering'.route[k + 1] = route[k]
             /\ Len(ordering'.toInsert) = Len(toInsert) - 1
             /\ \A k \in 1..(bi - 1) : ordering'.toInsert[k] = toInsert[k]
             /\ \A k \in bi..(Len(toInsert) - 1) :
                  ordering'.toInsert[k] = toInsert[k + 1]]_vars
  /\ [](ordering.greedy # <<>> =>
          ordering.greedy[1] = calculateGreedyInsertionOrder(ordering.start,
                                 ordering.waypoints, ordering.endCoords))

\* the second insertion has been made into a route seeded with an end leg,
\* and it was a choice among equals: the candidate inserted first was as
\* cheap at one place as the other candidate
C15_Witness ==
  /\ ordering.pc = "inserting"
  /\ EndLegs # {}
  /\ Len(ordering.route) = 4
  /\ Len(ordering.toInsert) = 0
  /\ ordering.best.bestPos = 1
  /\ ordering.best.bestIncrease
       = ExtraDistance(<<ordering.route[2]>>,
                       <<ordering.route[1]>> \o SubSeq(ordering.route, 3, 4), 1, 2)

\* C16: the path from the start through the stops in the order of
\* calculateGreedyInsertionOrder is never longer than in the order of
\* calculateNearestNeighborOrder on the same input.
C16_GreedyNeverLonger ==
  (ordering.greedy # <<>> /\ ordering.nearest # <<>>) =>
    PathLength(ordering.start, ordering.greedy[1])
      <= PathLength(ordering.start, ordering.nearest[1])

\* ------------------------------------------------------------------------
\* Properties of overlapping invocations
\* ------------------------------------------------------------------------
\* C17: the result of an earlier invocation never replaces the route data
\* delivered by a newer one: once an invocation and a newer one that
\* delivered a route have both finished, the route held is the newer one's,
\* with the duration compensated for the selected transport mode.
C17_StaleResultDiscarded ==
  \A c, d \in DOMAIN call :
    (/\ c < d
     /\ call[c].pc = "done"
     /\ call[d].pc = "done"
     /\ call[d].result = "route"
     /\ \A e \in DOMAIN call : e > d => call[e].pc = "idle")
    => /\ routeData # <<>>
       /\ routeData[1].duration = ShownDuration(transportMode, call[d].totalDur)
       /\ routeData[1].distance = call[d].totalDist

\* ------------------------------------------------------------------------
\* C21: every trip request and every segment request of an invocation asks
\* the provider for the profile driving, whatever travel mode the invocation
\* was started with.
\* ------------------------------------------------------------------------
C21_AlwaysDrivingProfile ==
  \A c \in MainCalls :
    \A k \in 1..Len(call[c].requests) :
      call[c].requests[k].kind \in {"trip", "route"}
        => call[c].requests[k].profile = "driving"

\* a walking or cycling invocation that has issued the trip request and a
\* segment request
C21_Witness ==
  \E c \in MainCalls :
    /\ call[c].transportMode \in {"walking", "cycling"}
    /\ RequestsOfKind(c, {"trip"}) # {}
    /\ RequestsOfKind(c, {"route"}) # {}

\* ------------------------------------------------------------------------
\* C22: the hook and both orderers never modify what they are given: no step
\* changes the caller's stop list or any field of a stop in it, an invocation
\* still holds the list it was given, no step of an orderer changes the
\* start, the leg list or the end coordinates it was called with, and what
\* an orderer returns holds the legs of its input.
\* ------------------------------------------------------------------------
C22_InputsNeverModified ==
  /\ [][waypoints' = waypoints]_vars
  /\ [][/\ ordering'.waypoints = ordering.waypoints
        /\ ordering'.start = ordering.start
        /\ ordering'.endCoords = ordering.endCoords]_vars
  /\ [](\A c \in MainCalls :
          call[c].pc # "idle" => call[c].waypoints = waypoints)
  /\ [](/\ ordering.greedy # <<>> =>
             Len(ordering.greedy[1]) = Len(ordering.waypoints)
        /\ ordering.nearest # <<>> =>
             /\ Len(ordering.nearest[1]) = Len(ordering.waypoints)
             /\ \A k \in 1..Len(ordering.nearest[1]) :
                  \E j \in 1..Len(ordering.waypoints) :
                    ordering.nearest[1][k] = ordering.waypoints[j])

\* both orderers have returned three legs in another order than the one
\* they were given
C22_Witness ==
  /\ Len(ordering.waypoints) = 3
  /\ ordering.greedy # <<>> /\ ordering.nearest # <<>>
  /\ ordering.greedy[1] # ordering.waypoints
  /\ ordering.nearest[1] # ordering.waypoints

C24_StrategyReported ==
  \A c \in MainCalls :
    Emitted(c) =>
      LET stitched ==
            /\ RequestsOfKind(c, {"route"}) # {}
            /\ Len(call[c].segments) = Len(call[c].reordered)
            /\ call[c].reordered =
                 calculateGreedyInsertionOrder(StartCoords(call[c]),
                   InsertionInput(Intermediate(call[c]), EndCoords(call[c]),
                                  call[c].geocodedEnd),
                   EndCoords(call[c]))
          accepted ==
            /\ call[c].tripResp = "object"
            /\ RequestsOfKind(c, {"route"}) = {}
      IN /\ stitched # accepted
         /\ LastToast.title = "Route: optimized by smart insertion" <=> stitched
         /\ LastToast.title = "Route calculated!" <=> accepted

\* the provider answered with an ordering of the wrong length: the route
\* was produced by the heuristic and the toast says so
C24_Witness ==
  \E c \in MainCalls :
    /\ Emitted(c)
    /\ call[c].tripResp = "object"
    /\ call[c].useGreedyInsertion
    /\ LastToast.title = "Route: optimized by smart insertion"

\* ------------------------------------------------------------------------
\* C25: what an invocation hands to its caller, the route or the error,
\* depends only on its inputs (location, stops, transport mode) and on the
\* answers it received: two invocations of one behaviour with the same
\* inputs and the same answers, run with different contents of the cache
\* of last durations and after different earlier invocations, deliver the
\* same result.
\* ------------------------------------------------------------------------
\* the inputs of invocation c
InputsOf(c) ==
  <<call[c].transportMode, call[c].currentLocation, call[c].waypoints>>

\* the answers invocation c received: the coordinates of its stops, whether
\* the trip client returned, the log of its segments, and the requests it
\* came to issue (a stop the geocoder did not resolve ends the list)
AnswersOf(c) ==
  <<call[c].geocodedIntermediate, call[c].geocodedEnd, call[c].tripResp,
    call[c].segments, call[c].requests>>

C25_ResultDependsOnInputsOnly ==
  \A c, d \in DOMAIN call :
    (/\ c < d
     /\ call[c].pc = "done"
     /\ call[d].pc = "done"
     /\ InputsOf(c) = InputsOf(d)
     /\ AnswersOf(c) = AnswersOf(d))
    => /\ call[c].result = call[d].result
       /\ call[c].delivered = call[d].delivered

\* the first and the third invocation had the same inputs and answers and
\* delivered a route; the second, in between, left another duration in the
\* cache for their mode
C25_Witness ==
  /\ DOMAIN call = RepeatCalls
  /\ \A c \in RepeatCalls : call[c].pc = "done" /\ call[c].result = "route"
  /\ InputsOf(1) = InputsOf(3) /\ AnswersOf(1) = AnswersOf(3)
  /\ call[2].transportMode = call[1].transportMode
  /\ call[2].delivered[1].duration # call[1].delivered[1].duration

\* ------------------------------------------------------------------------
\* C26: the distance function is symmetric and vanishes on identical
\* points: for the start and the legs an orderer works on,
\* haversine(a, b) = haversine(b, a) and haversine(a, a) = 0.
\* ------------------------------------------------------------------------
\* the points the orderers measure between
OrderingPoints ==
  {ordering.start}
    \cup {ordering.waypoints[k].coords : k \in 1..Len(ordering.waypoints)}

C26_DistanceSymmetric ==
  \A a, b \in OrderingPoints :
    /\ haversine(a, b) = haversine(b, a)
    /\ haversine(a, a) = 0

\* the orderers have measured between points that differ in longitude and
\* in latitude, and between two legs at the same point
C26_Witness ==
  /\ ordering.greedy # <<>> /\ ordering.nearest # <<>>
  /\ Len(ordering.waypoints) = 3
  /\ ordering.waypoints[1].coords = ordering.waypoints[2].coords
  /\ \E a, b \in OrderingPoints :
       a[1] # b[1] /\ a[2] # b[2] /\ haversine(a, b) > 0

\* ------------------------------------------------------------------------
\* C27: when the trip of the provider is accepted with an ordering array
\* that is a permutation of the n intermediate legs, entry i of the array
\* is the position of input leg i in the trip: the order the route is built
\* from has input leg i at rank ordering[i] (ranks and legs counted from 0
\* in the array, from 1 here).
\* ------------------------------------------------------------------------
C27_OrderingReadAsPositions ==
  [][\A c \in DOMAIN call :
       \A resp \in OutstandingTripAnswers(c) :
         LET n == Len(call[c].geocodedIntermediate)
         IN (/\ resp.kind = "trip"
             /\ resp.waypoint_order # <<>>
             /\ resp.waypoint_order[1] \in OrderPermutations(n)
             /\ TripReturn(c, resp)
             /\ (Emitted(c) /\ ~call[c].useGreedyInsertion)')
            => \A i \in 1..n :
                 call[c].reordered'[resp.waypoint_order[1][i] + 1]
                   = Intermediate(call[c])[i]]_vars

\* ------------------------------------------------------------------------
\* C28: when exactly one stop remains, a successful invocation has still
\* issued the trip request and its route has exactly two waypoints: the
\* start with displayNumber 0 and that stop with displayNumber 1 at its own
\* resolved coordinates, whether or not the stop is flagged as end point.
\* ------------------------------------------------------------------------
C28_SingleStopRoute ==
  \A c \in DOMAIN call :
    (Emitted(c) /\ Len(Remaining(call[c].waypoints)) = 1) =>
      LET wps == routeData[1].waypoints
          stop == Remaining(call[c].waypoints)[1]
      IN /\ RequestsOfKind(c, {"trip"}) # {}
         /\ Len(wps) = 2
         /\ wps[1].id = "start" /\ wps[1].displayNumber = 0
         /\ wps[2].id = stop.id /\ wps[2].displayNumber = 1
         /\ <<wps[2].longitude, wps[2].latitude>> = ResolvedCoords(c, stop.id)

\* ------------------------------------------------------------------------
\* C29: when one remaining stop is flagged isEndPoint, the last waypoint of
\* the route carries that stop's own address and name; the name and address
\* of the last leg are used only where the end stop's own field is blank,
\* and that leg is the end stop's own, so the last waypoint never shows the
\* name or the address of another stop.
\* ------------------------------------------------------------------------
C29_LastWaypointNamesEndStop ==
  \A c \in DOMAIN call :
    Emitted(c) =>
      LET wps == routeData[1].waypoints
          stops == Remaining(call[c].waypoints)
          last == wps[Len(wps)]
      IN \A k \in 1..Len(stops) :
           Flagged(stops) = {k} =>
             /\ Trim(stops[k].address) # "" => last.address = stops[k].address
             /\ Trim(stops[k].name) # "" => last.name = stops[k].name
             /\ \A j \in 1..Len(stops) :
                  j # k =>
                    /\ last.address # stops[j].address
                    /\ Trim(stops[j].name) # "" => last.name # stops[j].name

\* ------------------------------------------------------------------------
\* C30: on the fallback path, when an intermediate stop has been resolved
\* to the very coordinates of the end-flagged stop, the leg kept for the
\* final position is still the end-flagged stop's own leg, and the id of
\* every remaining stop appears exactly once among the waypoints of the
\* route after the start.
\* ------------------------------------------------------------------------
\* the id of the stop a leg of the order stands for, looked up through the
\* leg an end element may carry in the place of its stop
LegStopId(leg) ==
  IF "id" \in DOMAIN leg.waypoint THEN leg.waypoint.id
  ELSE leg.waypoint.waypoint.id

C30_EndLegPinnedByIdentity ==
  \A c \in DOMAIN call :
    (/\ Emitted(c)
     /\ call[c].useGreedyInsertion
     /\ Cardinality(Flagged(Remaining(call[c].waypoints))) = 1
     /\ \E j \in 1..Len(call[c].geocodedIntermediate) :
          call[c].geocodedIntermediate[j].coordinates = EndCoords(call[c]))
    => LET wps == Tail(routeData[1].waypoints)
           stops == Remaining(call[c].waypoints)
           reordered == call[c].reordered
       IN /\ LegStopId(reordered[Len(reordered)]) = call[c].endWaypoint[1].id
          /\ \A k \in 1..Len(stops) :
               Cardinality({j \in 1..Len(wps) : wps[j].id = stops[k].id}) = 1

\* ------------------------------------------------------------------------
\* C31: when the trip of the provider is accepted, the path of the route is
\* the trip's geometry (its [lon, lat] points as [lat, lon]), the distance
\* is the trip's and the duration before compensation is the trip's; that
\* invocation issues no segment request: segment requests are issued on the
\* fallback path only.
\* ------------------------------------------------------------------------
C31_AcceptedTripUsedAsIs ==
  /\ [][\A c \in DOMAIN call :
          \A resp \in OutstandingTripAnswers(c) :
            (TripReturn(c, resp) /\ (Emitted(c) /\ ~call[c].useGreedyInsertion)')
            => /\ routeData'[1].coordinates =
                    [k \in 1..Len(resp.coordinates) |->
                       <<resp.coordinates[k][2], resp.coordinates[k][1]>>]
               /\ routeData'[1].distance = resp.distance
               /\ call[c].totalDur' = resp.duration * DurUnit
               /\ call[c].segments' = <<>>]_vars
  /\ [](\A c \in DOMAIN call :
          /\ RequestsOfKind(c, {"route"}) # {} => call[c].useGreedyInsertion
          /\ (call[c].pc = "done" /\ call[c].tripResp = "object"
                /\ ~call[c].useGreedyInsertion)
               => RequestsOfKind(c, {"route"}) = {})

\* a trip accepted for three stops, its path through points that differ in
\* longitude and latitude
C31_Witness ==
  \E c \in DOMAIN call :
    /\ Emitted(c)
    /\ ~call[c].useGreedyInsertion
    /\ Len(call[c].reordered) = 3
    /\ Len(routeData[1].coordinates) = 4
    /\ \E k \in 1..4 : routeData[1].coordinates[k][1] # routeData[1].coordinates[k][2]
    /\ routeData[1].distance = TripMetrics.distance

\* ------------------------------------------------------------------------
\* C32: when the path of an answered segment is stitched to the path so
\* far, its first point is left out if it equals the last point of the path
\* so far and kept otherwise: no point that is not a duplicate is lost.
\* ------------------------------------------------------------------------
C32_OnlyDuplicateDropped ==
  [][\A c \in DOMAIN call :
       \A resp \in OutstandingSegmentAnswers(c) :
         (resp.kind = "route" /\ SegmentReturn(c, resp))
         => LET path == call[c].allCoords
                geometry == [k \in 1..Len(resp.coordinates) |->
                               <<resp.coordinates[k][2], resp.coordinates[k][1]>>]
            IN call[c].allCoords' =
                 IF Len(path) > 0 /\ geometry[1] = path[Len(path)]
                 THEN path \o Tail(geometry)
                 ELSE path \o geometry]_vars

\* ------------------------------------------------------------------------
\* C33: on the fallback path a leg whose segment request fails puts into
\* the path a straight line from the leg's origin to its destination: the
\* path then ends with the origin followed by the destination; when every
\* leg fails, the path of the route is the start followed by each stop in
\* route order.
\* ------------------------------------------------------------------------
C33_StraightLinePlaceholder ==
  /\ [][\A c \in DOMAIN call :
          \A resp \in OutstandingSegmentAnswers(c) :
            (resp.kind # "route" /\ SegmentReturn(c, resp))
            => LET asked == call[c].requests[Len(call[c].requests)].points
                   path == call[c].allCoords'
               IN /\ Len(path) >= 2
                  /\ path[Len(path) - 1] = <<asked[1][2], asked[1][1]>>
                  /\ path[Len(path)] = <<asked[2][2], asked[2][1]>>]_vars
  /\ [](\A c \in DOMAIN call :
          (/\ Emitted(c)
           /\ call[c].useGreedyInsertion
           /\ \A k \in 1..Len(call[c].segments) : call[c].segments[k].threw)
          => routeData[1].coordinates =
               <<<<StartCoords(call[c])[2], StartCoords(call[c])[1]>>>>
                 \o [k \in 1..Len(call[c].reordered) |->
                       <<call[c].reordered[k].coords[2], call[c].reordered[k].coords[1]>>])

C35_AtMostOneEndPoint ==
  /\ [](Cardinality(Flagged(waypoints)) <= 1)
  /\ [][\A k \in 1..Len(waypoints) :
          SetEndPoint(waypoints[k].id) => Flagged(waypoints') = {k}]_vars

\* three stops, the end point moved from one to another
C35_Witness ==
  /\ Len(waypoints) = 3
  /\ Flagged(waypoints) = {3}
  /\ waypoints[1].visited
  /\ waypoints[2].address = AddressText[1]

\* ------------------------------------------------------------------------
\* C36: when the trip carries an ordering array of the right length that is
\* not a permutation of 0..n-1 (an index out of range or an index twice),
\* no route is built from it: the fallback path is taken.
\* ------------------------------------------------------------------------
C36_NonPermutationFallsBack ==
  [][\A c \in DOMAIN call :
       \A resp \in OutstandingTripAnswers(c) :
         LET n == Len(call[c].geocodedIntermediate)
         IN (/\ resp.kind = "trip"
             /\ resp.waypoint_order # <<>>
             /\ Len(resp.waypoint_order[1]) = n
             /\ resp.waypoint_order[1] \notin OrderPermutations(n)
             /\ TripReturn(c, resp))
            => (call[c].useGreedyInsertion /\ call[c].pc = "segment")']_vars

\* ------------------------------------------------------------------------
\* C37: the loading flag is true in every state in which an invocation has
\* passed validation and has not finished, overlapping invocations
\* included.
\* ------------------------------------------------------------------------
C37_LoadingWhileInFlight ==
  (\E c \in DOMAIN call : call[c].pc \in {"geocode", "trip", "segment"})
    => isLoading

\* ------------------------------------------------------------------------
\* C38: after Reset the held route data stays null, the loading flag stays
\* false and the map carries no route line and no stop markers until a new
\* calculation is triggered, also when a computation was in flight when
\* Reset was pressed.  In ResetSpec the location is set at the start and
\* only Reset clears it, and only a calculation triggered after Reset is
\* refused at the guard of line 228.
\* ------------------------------------------------------------------------
AfterReset == currentLocation = <<>>

CalculationSinceReset == \E c \in DOMAIN call : call[c].result = "rejected"

C38_ResetStaysCleared ==
  (AfterReset /\ ~CalculationSinceReset) =>
    /\ routeData = <<>>
    /\ ~isLoading
    /\ routeLayerRef = <<>>
    /\ markersRef = <<>>

\* ------------------------------------------------------------------------
\* C39: for every list of legs and every optional end point, what
\* calculateGreedyInsertionOrder and calculateNearestNeighborOrder return
\* holds each input leg (same coordinates, same originating stop) exactly
\* once, and no placeholder of the start or the end.
\* ------------------------------------------------------------------------
EachLegOnce(returned, legs) ==
  /\ Len(returned) = Len(legs)
  /\ \A i \in 1..Len(legs) :
       Cardinality({k \in 1..Len(returned) : returned[k] = legs[i]}) = 1
  /\ \A k \in 1..Len(returned) : returned[k].waypoint # NullWaypoint

C39_EachLegExactlyOnce ==
  /\ ordering.greedy # <<>> => EachLegOnce(ordering.greedy[1], ordering.waypoints)
  /\ ordering.nearest # <<>> => EachLegOnce(ordering.nearest[1], ordering.waypoints)

====
